---- MODULE Spec2Model ----
(***************************************************************************)
(* Six Thinking Hats: the budget-constrained search orchestration engine   *)
(* (SearchCache, DuplicateDetector, PhasedSearchOrchestrator), the budget  *)
(* allocator of the ManagerAgent and the phased LangGraph workflow.        *)
(*                                                                         *)
(* Strings are sequences of one-character strings, so that lower(),        *)
(* strip() and split() are computed and not assumed.  A Python dict is a   *)
(* sequence of <<key, value>> pairs in insertion order where the order is  *)
(* read by the code, and a function where it is not.                       *)
(***************************************************************************)
EXTENDS Integers, Sequences, FiniteSets, TLC

VARIABLES
    \* ---- ManagerAgent._allocate_search_budget (pure function, SpecAlloc)
    search_recommendations, \* the priority map: <<hat, priority>> pairs in dict order
    allocated,              \* the outcome of the last allocation
    \* ---- SearchCache (shared by SpecCache and Spec)
    cache,                  \* SearchCache.cache: key -> [data, timestamp]
    now,                    \* datetime.now(), in seconds
    advances,               \* how often the clock has been advanced
    args,                   \* SpecCache: the two (hat, query) argument pairs in use
    lastSet,                \* SpecCache: the last SearchCache.set call made with each argument pair
    lastGet,                \* SpecCache: the SearchCache.get call just made and what it returned
    \* ---- DuplicateDetector.is_duplicate (pure function, SpecDup)
    dupArgs,                \* the two query strings a and b
    dupOut,                 \* the two results is_duplicate(a,[(b,h)]), is_duplicate(b,[(a,h)])
    \* ---- PhasedWorkflowGraph and its PhasedSearchOrchestrator (Spec)
    max_searches,           \* max_searches_per_query of the workflow and its orchestrator
    query_registry,         \* DuplicateDetector.query_registry: <<query, hat_name>> pairs
    search_stats,           \* PhasedSearchOrchestrator.search_stats
    agent_search_results,   \* the search_results field of each hat agent object
    state,                  \* the WorkflowState of the current run
    pc,                     \* the node the graph runs next ("idle" between runs)
    pending,                \* the parallel hat nodes that have not returned yet
    runs,                   \* how many times invoke (Spec) or a method of the
                            \* orchestrator (SpecOrch) has been called
    search_api_calls,       \* calls of search_api.search made in the current run
                            \* (SpecOrch: since the orchestrator was built)
    wave_outcomes,          \* what the initial wave of the current run did with each item
    faults,                 \* how often the language model has raised or the search
                            \* provider has returned nothing
    raises,                 \* how many more bodies of nodes raise (SpecLive)
    stream,                 \* whether the current run was started by stream(query), and
                            \* the events its generator has yielded
    \* ---- DuplicateDetector and PhasedSearchOrchestrator called directly
    \* (SpecRegistry, SpecOrch)
    lastCall                \* the method call just made: its arguments, the object
                            \* before it, and what it returned

vars == <<search_recommendations, allocated, cache, now, advances, args,
          lastSet, lastGet, dupArgs, dupOut, max_searches, query_registry,
          search_stats, agent_search_results, state, pc, pending, runs,
          search_api_calls, wave_outcomes, faults, raises, stream, lastCall>>

allocVars == <<search_recommendations, allocated>>
cacheVars == <<cache, now, advances, args, lastSet, lastGet>>
dupVars   == <<dupArgs, dupOut>>
wfVars    == <<max_searches, query_registry, search_stats, agent_search_results,
               state, pc, pending, runs, search_api_calls, wave_outcomes,
               faults, raises, stream>>
orchVars  == <<lastCall>>

-----------------------------------------------------------------------------
(* Generic helpers *)

Range(s) == {s[i] : i \in 1..Len(s)}

Min(a, b) == IF a <= b THEN a ELSE b

Front(s) == SubSeq(s, 1, Len(s) - 1)

Reverse(s) == [i \in 1..Len(s) |-> s[Len(s) + 1 - i]]

-----------------------------------------------------------------------------
(* Python str operations on sequences of characters *)

\* str.isspace() for the characters of the model's alphabet
IsSpace(c) == c \in {" ", "\t"}

\* one character of str.lower()
LowerChar(c) ==
    CASE c = "A" -> "a"
      [] c = "B" -> "b"
      [] c = "C" -> "c"
      [] c = "D" -> "d"
      [] c = "E" -> "e"
      [] c = "F" -> "f"
      [] c = "G" -> "g"
      [] c = "H" -> "h"
      [] c = "I" -> "i"
      [] c = "J" -> "j"
      [] c = "K" -> "k"
      [] c = "L" -> "l"
      [] c = "M" -> "m"
      [] c = "N" -> "n"
      [] c = "O" -> "o"
      [] c = "P" -> "p"
      [] c = "Q" -> "q"
      [] c = "R" -> "r"
      [] c = "S" -> "s"
      [] c = "T" -> "t"
      [] c = "U" -> "u"
      [] c = "V" -> "v"
      [] c = "W" -> "w"
      [] c = "X" -> "x"
      [] c = "Y" -> "y"
      [] c = "Z" -> "z"
      [] OTHER -> c

\* str.lower()
str_lower(s) == [i \in 1..Len(s) |-> LowerChar(s[i])]

\* str.strip(): drop leading and trailing whitespace
str_strip(s) ==
    LET keep == {i \in 1..Len(s) : ~IsSpace(s[i])}
    IN  IF keep = {} THEN <<>>
        ELSE LET lo == CHOOSE i \in keep : \A j \in keep : i <= j
                 hi == CHOOSE i \in keep : \A j \in keep : j <= i
             IN  SubSeq(s, lo, hi)

\* set(str.split()): the maximal runs of non-whitespace characters, each from a
\* position where a run starts to the first position at or after it where a run ends
str_split_set(s) ==
    LET starts == {i \in 1..Len(s) : ~IsSpace(s[i]) /\ (i = 1 \/ IsSpace(s[i - 1]))}
        ends == {j \in 1..Len(s) : ~IsSpace(s[j]) /\ (j = Len(s) \/ IsSpace(s[j + 1]))}
    IN  {SubSeq(s, i, CHOOSE j \in ends : j >= i /\ \A k \in ends : k >= i => j <= k) :
            i \in starts}

-----------------------------------------------------------------------------
(* agents/manager_agent.py: HatType, SearchPriority, _allocate_search_budget *)

HatType == {"WHITE", "RED", "YELLOW", "BLACK", "GREEN", "BLUE"}

\* the declaration order of the HatType enum
HatOrder == <<"WHITE", "RED", "YELLOW", "BLACK", "GREEN", "BLUE">>

SearchPriority == {"CRITICAL", "HIGH", "MEDIUM", "LOW", "NEVER"}

\* a should_allocate that also lets LOW through
should_allocate_low(priority) == priority \in {"CRITICAL", "HIGH", "MEDIUM", "LOW"}

should_allocate(priority) ==
    IF priority = "CRITICAL" THEN TRUE
    ELSE IF priority = "HIGH" THEN TRUE
    ELSE IF priority = "MEDIUM" THEN TRUE
    ELSE FALSE

priority_order(priority) ==
    CASE priority = "CRITICAL" -> 0
      [] priority = "HIGH" -> 1
      [] priority = "MEDIUM" -> 2
      [] priority = "LOW" -> 3
      [] priority = "NEVER" -> 4

\* the literal 4 of candidates[:4]
AllocationLimit == 4

\* [(hat, priority) for hat, priority in search_recommendations.items() if should_allocate(priority)]
candidates_of(recs) == SelectSeq(recs, LAMBDA e : should_allocate(e[2]))

\* an insertion that puts x before the elements of equal key (an unstable sort)
RECURSIVE unstable_insert(_, _)
unstable_insert(sorted, x) ==
    IF sorted = <<>> THEN <<x>>
    ELSE IF priority_order(Head(sorted)[2]) < priority_order(x[2])
         THEN <<Head(sorted)>> \o unstable_insert(Tail(sorted), x)
         ELSE <<x>> \o sorted

\* list.sort(key=...) is stable: x goes after every element whose key is <= its own
RECURSIVE stable_insert(_, _)
stable_insert(sorted, x) ==
    IF sorted = <<>> THEN <<x>>
    ELSE IF priority_order(Head(sorted)[2]) <= priority_order(x[2])
         THEN <<Head(sorted)>> \o stable_insert(Tail(sorted), x)
         ELSE <<x>> \o sorted

RECURSIVE sort_by_priority(_)
sort_by_priority(seq) ==
    IF seq = <<>> THEN <<>>
    ELSE stable_insert(sort_by_priority(Front(seq)), seq[Len(seq)])

\* allocated = [hat for hat, _ in candidates[:4]]
truncate_candidates(sorted) ==
    [i \in 1..Min(AllocationLimit, Len(sorted)) |-> sorted[i][1]]

\* an allocator without the mandatory-inclusion step
ensure_white_skipped(alloc0, recs) == [raised |-> FALSE, value |-> alloc0]

\* a mandatory-inclusion step that inserts WHITE without evicting an entry
ensure_white_no_pop(alloc0, recs) ==
    IF "WHITE" \notin Range(alloc0) /\ "WHITE" \in {e[1] : e \in Range(recs)}
    THEN [raised |-> FALSE, value |-> <<"WHITE">> \o alloc0]
    ELSE [raised |-> FALSE, value |-> alloc0]

\* "Ensure White Hat is always included": allocated.pop(); allocated.insert(0, WHITE).
\* list.pop() on an empty list raises IndexError, which nothing in the allocator catches.
ensure_white(alloc0, recs) ==
    IF "WHITE" \notin Range(alloc0) /\ "WHITE" \in {e[1] : e \in Range(recs)}
    THEN IF alloc0 = <<>>
         THEN [raised |-> TRUE, value |-> <<>>]
         ELSE [raised |-> FALSE, value |-> <<"WHITE">> \o Front(alloc0)]
    ELSE [raised |-> FALSE, value |-> alloc0]

allocate_search_budget(recs) ==
    ensure_white(truncate_candidates(sort_by_priority(candidates_of(recs))), recs)

-----------------------------------------------------------------------------
(* agents/manager_agent.py: ManagerAgent.analyze_query *)

\* the alternatives of r'\b(algorithm|quantum|...)\b'
technical_terms ==
    << <<"a", "l", "g", "o", "r", "i", "t", "h", "m">>,
       <<"q", "u", "a", "n", "t", "u", "m">>,
       <<"c", "r", "y", "p", "t", "o">>,
       <<"b", "l", "o", "c", "k", "c", "h", "a", "i", "n">>,
       <<"A", "I">>,
       <<"M", "L">>,
       <<"n", "e", "u", "r", "a", "l">>,
       <<"b", "i", "o", "i", "n", "f", "o", "r", "m", "a", "t", "i", "c",
         "s">>,
       <<"p", "h", "a", "r", "m", "a", "c", "o", "l", "o", "g", "y">> >>

\* the alternatives of r'\b(compare|versus|...)\b'
comparative_terms ==
    << <<"c", "o", "m", "p", "a", "r", "e">>,
       <<"v", "e", "r", "s", "u", "s">>,
       <<"d", "i", "f", "f", "e", "r", "e", "n", "c", "e">>,
       <<"t", "r", "a", "d", "e", "-", "o", "f", "f">>,
       <<"p", "r", "o", "s", "/", "c", "o", "n", "s">>,
       <<"a", "d", "v", "a", "n", "t", "a", "g", "e">>,
       <<"d", "i", "s", "a", "d", "v", "a", "n", "t", "a", "g", "e">> >>

\* topic_keywords, in dict order
topic_keywords ==
    << <<"BUSINESS",
          << <<"b", "u", "s", "i", "n", "e", "s", "s">>,
             <<"c", "o", "m", "p", "a", "n", "y">>,
             <<"s", "t", "a", "r", "t", "u", "p">>,
             <<"e", "n", "t", "r", "e", "p", "r", "e", "n", "e", "u", "r">>,
             <<"r", "e", "v", "e", "n", "u", "e">>,
             <<"p", "r", "o", "f", "i", "t">>,
             <<"m", "a", "r", "k", "e", "t">>,
             <<"c", "o", "m", "p", "e", "t", "i", "t", "i", "o", "n">>,
             <<"s", "t", "r", "a", "t", "e", "g", "y">>,
             <<"i", "n", "v", "e", "s", "t", "m", "e", "n", "t">>,
             <<"f", "u", "n", "d", "i", "n", "g">>,
             <<"I", "P", "O">>,
             <<"m", "e", "r", "g", "e", "r">>,
             <<"a", "c", "q", "u", "i", "s", "i", "t", "i", "o", "n">>,
             <<"v", "e", "n", "t", "u", "r", "e">>,
             <<"R", "O", "I">>,
             <<"s", "a", "l", "e", "s">>,
             <<"c", "u", "s", "t", "o", "m", "e", "r">> >>>>,
       <<"HEALTH",
          << <<"h", "e", "a", "l", "t", "h">>,
             <<"m", "e", "d", "i", "c", "a", "l">>,
             <<"d", "i", "s", "e", "a", "s", "e">>,
             <<"t", "r", "e", "a", "t", "m", "e", "n", "t">>,
             <<"t", "h", "e", "r", "a", "p", "y">>,
             <<"d", "o", "c", "t", "o", "r">>,
             <<"h", "o", "s", "p", "i", "t", "a", "l">>,
             <<"m", "e", "d", "i", "c", "i", "n", "e">>,
             <<"d", "r", "u", "g">>,
             <<"s", "y", "m", "p", "t", "o", "m">>,
             <<"d", "i", "a", "g", "n", "o", "s", "i", "s">>,
             <<"h", "e", "a", "l", "t", "h", "c", "a", "r", "e">>,
             <<"w", "e", "l", "l", "n", "e", "s", "s">>,
             <<"n", "u", "t", "r", "i", "t", "i", "o", "n">>,
             <<"e", "x", "e", "r", "c", "i", "s", "e">>,
             <<"f", "i", "t", "n", "e", "s", "s">>,
             <<"m", "e", "n", "t", "a", "l", " ", "h", "e", "a", "l", "t",
               "h">> >>>>,
       <<"TECHNOLOGY",
          << <<"t", "e", "c", "h", "n", "o", "l", "o", "g", "y">>,
             <<"s", "o", "f", "t", "w", "a", "r", "e">>,
             <<"p", "r", "o", "g", "r", "a", "m", "m", "i", "n", "g">>,
             <<"A", "I">>,
             <<"m", "a", "c", "h", "i", "n", "e", " ", "l", "e", "a", "r",
               "n", "i", "n", "g">>,
             <<"d", "a", "t", "a">>,
             <<"a", "l", "g", "o", "r", "i", "t", "h", "m">>,
             <<"t", "e", "c", "h">>,
             <<"d", "i", "g", "i", "t", "a", "l">>,
             <<"c", "o", "m", "p", "u", "t", "e", "r">>,
             <<"i", "n", "t", "e", "r", "n", "e", "t">>,
             <<"c", "l", "o", "u", "d">>,
             <<"c", "y", "b", "e", "r", "s", "e", "c", "u", "r", "i", "t",
               "y">>,
             <<"b", "l", "o", "c", "k", "c", "h", "a", "i", "n">>,
             <<"q", "u", "a", "n", "t", "u", "m">>,
             <<"r", "o", "b", "o", "t", "i", "c", "s">> >>>>,
       <<"EMOTIONAL",
          << <<"f", "e", "e", "l">>,
             <<"e", "m", "o", "t", "i", "o", "n">>,
             <<"f", "e", "e", "l", "i", "n", "g">>,
             <<"s", "a", "d">>,
             <<"h", "a", "p", "p", "y">>,
             <<"a", "n", "g", "r", "y">>,
             <<"a", "n", "x", "i", "o", "u", "s">>,
             <<"r", "e", "l", "a", "t", "i", "o", "n", "s", "h", "i", "p">>,
             <<"l", "o", "v", "e">>,
             <<"f", "a", "m", "i", "l", "y">>,
             <<"f", "r", "i", "e", "n", "d", "s", "h", "i", "p">>,
             <<"p", "e", "r", "s", "o", "n", "a", "l">>,
             <<"m", "o", "o", "d">>,
             <<"p", "s", "y", "c", "h", "o", "l", "o", "g", "y">>,
             <<"m", "e", "n", "t", "a", "l">>,
             <<"s", "e", "l", "f", "-", "e", "s", "t", "e", "e", "m">>,
             <<"c", "o", "n", "f", "i", "d", "e", "n", "c", "e">> >>>>,
       <<"SOCIAL",
          << <<"s", "o", "c", "i", "e", "t", "y">>,
             <<"s", "o", "c", "i", "a", "l">>,
             <<"c", "o", "m", "m", "u", "n", "i", "t", "y">>,
             <<"c", "u", "l", "t", "u", "r", "e">>,
             <<"p", "o", "l", "i", "t", "i", "c", "a", "l">>,
             <<"g", "o", "v", "e", "r", "n", "m", "e", "n", "t">>,
             <<"p", "o", "l", "i", "c", "y">>,
             <<"l", "a", "w">>,
             <<"e", "t", "h", "i", "c", "s">>,
             <<"j", "u", "s", "t", "i", "c", "e">>,
             <<"e", "q", "u", "a", "l", "i", "t", "y">>,
             <<"d", "i", "v", "e", "r", "s", "i", "t", "y">>,
             <<"p", "u", "b", "l", "i", "c">>,
             <<"s", "o", "c", "i", "a", "l", " ", "m", "e", "d", "i", "a">>,
             <<"n", "e", "w", "s">>,
             <<"c", "o", "n", "t", "r", "o", "v", "e", "r", "s", "y">> >>>>,
       <<"SAFETY",
          << <<"s", "a", "f", "e", "t", "y">>,
             <<"r", "i", "s", "k">>,
             <<"d", "a", "n", "g", "e", "r">>,
             <<"h", "a", "z", "a", "r", "d">>,
             <<"s", "e", "c", "u", "r", "i", "t", "y">>,
             <<"t", "h", "r", "e", "a", "t">>,
             <<"v", "u", "l", "n", "e", "r", "a", "b", "i", "l", "i", "t",
               "y">>,
             <<"a", "c", "c", "i", "d", "e", "n", "t">>,
             <<"i", "n", "j", "u", "r", "y">>,
             <<"h", "a", "r", "m">>,
             <<"w", "a", "r", "n", "i", "n", "g">>,
             <<"l", "i", "a", "b", "i", "l", "i", "t", "y">>,
             <<"i", "n", "s", "u", "r", "a", "n", "c", "e">>,
             <<"p", "r", "e", "c", "a", "u", "t", "i", "o", "n">> >>>> >>

\* the word list of the red rule
red_words ==
    << <<"f", "e", "e", "l">>,
       <<"e", "m", "o", "t", "i", "o", "n">>,
       <<"r", "e", "a", "c", "t", "i", "o", "n">>,
       <<"r", "e", "s", "p", "o", "n", "s", "e">>,
       <<"s", "e", "n", "t", "i", "m", "e", "n", "t">> >>

\* the word list of the yellow rule
yellow_words ==
    << <<"b", "e", "n", "e", "f", "i", "t">>,
       <<"a", "d", "v", "a", "n", "t", "a", "g", "e">>,
       <<"o", "p", "p", "o", "r", "t", "u", "n", "i", "t", "y">>,
       <<"s", "u", "c", "c", "e", "s", "s">>,
       <<"p", "o", "s", "i", "t", "i", "v", "e">> >>

\* the word list of the black rule
black_words ==
    << <<"r", "i", "s", "k">>,
       <<"p", "r", "o", "b", "l", "e", "m">>,
       <<"f", "a", "i", "l", "u", "r", "e">>,
       <<"d", "a", "n", "g", "e", "r">>,
       <<"c", "r", "i", "t", "i", "c", "i", "s", "m">> >>

\* the word list of the green rule
green_words ==
    << <<"c", "r", "e", "a", "t", "i", "v", "e">>,
       <<"i", "n", "n", "o", "v", "a", "t", "i", "o", "n">>,
       <<"a", "l", "t", "e", "r", "n", "a", "t", "i", "v", "e">>,
       <<"s", "o", "l", "u", "t", "i", "o", "n">>,
       <<"b", "r", "e", "a", "k", "t", "h", "r", "o", "u", "g", "h">> >>

\* emotion_terms.get(topic, "opinion reaction sentiment response")
emotion_terms(topic) ==
    CASE topic = "EMOTIONAL" ->
           <<"r", "e", "a", "c", "t", "i", "o", "n", "s", " ", "o", "p", "i",
             "n", "i", "o", "n", "s", " ", "f", "e", "e", "l", "i", "n", "g",
             "s", " ", "r", "e", "s", "p", "o", "n", "s", "e">>
      [] topic = "SOCIAL" ->
           <<"p", "u", "b", "l", "i", "c", " ", "o", "p", "i", "n", "i", "o",
             "n", " ", "s", "o", "c", "i", "a", "l", " ", "r", "e", "s", "p",
             "o", "n", "s", "e", " ", "r", "e", "a", "c", "t", "i", "o", "n",
             "s">>
      [] topic = "HEALTH" ->
           <<"p", "a", "t", "i", "e", "n", "t", " ", "e", "x", "p", "e", "r",
             "i", "e", "n", "c", "e", "s", " ", "e", "m", "o", "t", "i", "o",
             "n", "a", "l", " ", "i", "m", "p", "a", "c", "t">>
      [] topic = "BUSINESS" ->
           <<"c", "u", "s", "t", "o", "m", "e", "r", " ", "r", "e", "v", "i",
             "e", "w", "s", " ", "b", "u", "s", "i", "n", "e", "s", "s", " ",
             "s", "e", "n", "t", "i", "m", "e", "n", "t">>
      [] topic = "TECHNOLOGY" ->
           <<"u", "s", "e", "r", " ", "e", "x", "p", "e", "r", "i", "e", "n",
             "c", "e", " ", "c", "o", "m", "m", "u", "n", "i", "t", "y", " ",
             "f", "e", "e", "d", "b", "a", "c", "k">>
      [] OTHER ->
           <<"o", "p", "i", "n", "i", "o", "n", " ", "r", "e", "a", "c", "t",
             "i", "o", "n", " ", "s", "e", "n", "t", "i", "m", "e", "n", "t",
             " ", "r", "e", "s", "p", "o", "n", "s", "e">>

\* yellow_terms.get(topic, "benefits advantages opportunities")
yellow_terms(topic) ==
    CASE topic = "BUSINESS" ->
           <<"b", "u", "s", "i", "n", "e", "s", "s", " ", "b", "e", "n", "e",
             "f", "i", "t", "s", " ", "a", "d", "v", "a", "n", "t", "a", "g",
             "e", "s", " ", "o", "p", "p", "o", "r", "t", "u", "n", "i", "t",
             "i", "e", "s", " ", "s", "u", "c", "c", "e", "s", "s", " ", "c",
             "a", "s", "e", " ", "s", "t", "u", "d", "i", "e", "s">>
      [] topic = "HEALTH" ->
           <<"h", "e", "a", "l", "t", "h", " ", "b", "e", "n", "e", "f", "i",
             "t", "s", " ", "p", "o", "s", "i", "t", "i", "v", "e", " ", "o",
             "u", "t", "c", "o", "m", "e", "s", " ", "i", "m", "p", "r", "o",
             "v", "e", "m", "e", "n", "t", "s">>
      [] topic = "TECHNOLOGY" ->
           <<"i", "n", "n", "o", "v", "a", "t", "i", "o", "n", " ", "b", "e",
             "n", "e", "f", "i", "t", "s", " ", "t", "e", "c", "h", "n", "o",
             "l", "o", "g", "i", "c", "a", "l", " ", "a", "d", "v", "a", "n",
             "t", "a", "g", "e", "s", " ", "i", "m", "p", "r", "o", "v", "e",
             "m", "e", "n", "t", "s">>
      [] topic = "GENERAL" ->
           <<"b", "e", "n", "e", "f", "i", "t", "s", " ", "a", "d", "v", "a",
             "n", "t", "a", "g", "e", "s", " ", "o", "p", "p", "o", "r", "t",
             "u", "n", "i", "t", "i", "e", "s", " ", "p", "o", "s", "i", "t",
             "i", "v", "e", " ", "a", "s", "p", "e", "c", "t", "s">>
      [] OTHER ->
           <<"b", "e", "n", "e", "f", "i", "t", "s", " ", "a", "d", "v", "a",
             "n", "t", "a", "g", "e", "s", " ", "o", "p", "p", "o", "r", "t",
             "u", "n", "i", "t", "i", "e", "s">>

\* black_terms.get(topic, "risks problems challenges")
black_terms(topic) ==
    CASE topic = "HEALTH" ->
           <<"h", "e", "a", "l", "t", "h", " ", "r", "i", "s", "k", "s", " ",
             "s", "i", "d", "e", " ", "e", "f", "f", "e", "c", "t", "s", " ",
             "d", "a", "n", "g", "e", "r", "s", " ", "p", "r", "o", "b", "l",
             "e", "m", "s">>
      [] topic = "SAFETY" ->
           <<"s", "a", "f", "e", "t", "y", " ", "r", "i", "s", "k", "s", " ",
             "h", "a", "z", "a", "r", "d", "s", " ", "d", "a", "n", "g", "e",
             "r", "s", " ", "w", "a", "r", "n", "i", "n", "g", "s">>
      [] topic = "BUSINESS" ->
           <<"b", "u", "s", "i", "n", "e", "s", "s", " ", "r", "i", "s", "k",
             "s", " ", "c", "h", "a", "l", "l", "e", "n", "g", "e", "s", " ",
             "p", "r", "o", "b", "l", "e", "m", "s", " ", "f", "a", "i", "l",
             "u", "r", "e", "s">>
      [] topic = "TECHNOLOGY" ->
           <<"t", "e", "c", "h", "n", "o", "l", "o", "g", "y", " ", "r", "i",
             "s", "k", "s", " ", "c", "y", "b", "e", "r", "s", "e", "c", "u",
             "r", "i", "t", "y", " ", "t", "h", "r", "e", "a", "t", "s", " ",
             "p", "r", "o", "b", "l", "e", "m", "s">>
      [] topic = "GENERAL" ->
           <<"r", "i", "s", "k", "s", " ", "p", "r", "o", "b", "l", "e", "m",
             "s", " ", "c", "h", "a", "l", "l", "e", "n", "g", "e", "s", " ",
             "l", "i", "m", "i", "t", "a", "t", "i", "o", "n", "s">>
      [] OTHER ->
           <<"r", "i", "s", "k", "s", " ", "p", "r", "o", "b", "l", "e", "m",
             "s", " ", "c", "h", "a", "l", "l", "e", "n", "g", "e", "s">>

\* the text after {query} in the white f-string
white_suffix ==
    <<" ", "f", "a", "c", "t", "s", " ", "s", "t", "a", "t", "i", "s", "t",
      "i", "c", "s", " ", "d", "a", "t", "a", " ", "r", "e", "s", "e", "a",
      "r", "c", "h">>

\* the text after {query} in the green f-string
green_suffix ==
    <<" ", "c", "r", "e", "a", "t", "i", "v", "e", " ", "s", "o", "l", "u",
      "t", "i", "o", "n", "s", " ", "a", "l", "t", "e", "r", "n", "a", "t",
      "i", "v", "e", "s", " ", "i", "n", "n", "o", "v", "a", "t", "i", "o",
      "n", " ", "n", "e", "w", " ", "a", "p", "p", "r", "o", "a", "c", "h",
      "e", "s">>

\* the text after {query} in the blue f-string
blue_suffix ==
    <<" ", "b", "e", "s", "t", " ", "p", "r", "a", "c", "t", "i", "c", "e",
      "s", " ", "f", "r", "a", "m", "e", "w", "o", "r", "k", " ", "m", "e",
      "t", "h", "o", "d", "o", "l", "o", "g", "y">>


\* the members of the Complexity enum
Complexity == {"SIMPLE", "MODERATE", "COMPLEX"}

\* the members of the Topic enum
Topic == {"BUSINESS", "HEALTH", "TECHNOLOGY", "EMOTIONAL", "SOCIAL", "GENERAL", "SAFETY"}

\* keyword in s (Python substring test)
Contains(s, keyword) ==
    \E i \in 1..(Len(s) - Len(keyword) + 1) :
        SubSeq(s, i, i + Len(keyword) - 1) = keyword

\* the characters the regular expression class \w matches, within the model's alphabet
IsWordChar(c) ==
    c \in {"a", "b", "c", "d", "e", "f", "g", "h", "i", "j", "k", "l", "m",
           "n", "o", "p", "q", "r", "s", "t", "u", "v", "w", "x", "y", "z",
           "A", "B", "C", "D", "E", "F", "G", "H", "I", "J", "K", "L", "M",
           "N", "O", "P", "Q", "R", "S", "T", "U", "V", "W", "X", "Y", "Z",
           "0", "1", "2", "3", "4", "5", "6", "7", "8", "9", "_"}

\* bool(re.search(r'\b(t1|t2|...)\b', s)): every alternative starts and ends with a
\* word character, so \b asks for a non-word character or the end of s on both sides
regex_word_search(terms, s) ==
    \E k \in 1..Len(terms) :
        \E i \in 1..(Len(s) - Len(terms[k]) + 1) :
            LET j == i + Len(terms[k]) - 1
            IN  /\ SubSeq(s, i, j) = terms[k]
                /\ (i = 1 \/ ~IsWordChar(s[i - 1]))
                /\ (j = Len(s) \/ ~IsWordChar(s[j + 1]))

\* s.count(c) for a single character c
str_count_char(s, c) == Cardinality({i \in 1..Len(s) : s[i] = c})

\* len(s.split())
str_split_len(s) ==
    Cardinality({i \in 1..Len(s) : ~IsSpace(s[i]) /\ (i = 1 \/ IsSpace(s[i - 1]))})

\* thresholds that leave the scores 1 and 3 to the next class
complexity_of_score_strict(complexity_score) ==
    IF complexity_score < 1 THEN "SIMPLE"
    ELSE IF complexity_score < 3 THEN "MODERATE"
    ELSE "COMPLEX"

\* "Determine complexity": the class of a score
complexity_of_score(complexity_score) ==
    IF complexity_score <= 1 THEN "SIMPLE"
    ELSE IF complexity_score <= 3 THEN "MODERATE"
    ELSE "COMPLEX"

\* ManagerAgent._determine_complexity
determine_complexity(query) ==
    LET word_count == str_split_len(query)
        has_technical_terms == regex_word_search(technical_terms, str_lower(query))
        has_multiple_parts ==
            \/ str_count_char(query, "?") > 1
            \/ Contains(query, <<" ", "a", "n", "d", " ">>)
            \/ str_count_char(query, ",") > 2
        has_comparative_terms == regex_word_search(comparative_terms, str_lower(query))
        complexity_score ==
            (IF word_count > 15 THEN 1 ELSE 0)
            + (IF has_technical_terms THEN 2 ELSE 0)
            + (IF has_multiple_parts THEN 1 ELSE 0)
            + (IF has_comparative_terms THEN 1 ELSE 0)
    IN  complexity_of_score(complexity_score)

\* sum(1 for keyword in keywords if keyword in query_lower)
keyword_score(keywords, query_lower) ==
    Cardinality({k \in 1..Len(keywords) : Contains(query_lower, keywords[k])})

\* ManagerAgent._classify_topic: max() returns the first topic, in dict order, that
\* has the highest score
classify_topic(query) ==
    LET query_lower == str_lower(query)
        score == [k \in 1..Len(topic_keywords) |->
                    keyword_score(topic_keywords[k][2], query_lower)]
        scored == {k \in 1..Len(topic_keywords) : score[k] > 0}
    IN  IF scored # {}
        THEN LET best == CHOOSE k \in scored :
                            /\ \A j \in scored : score[j] <= score[k]
                            /\ \A j \in scored : j < k => score[j] < score[k]
             IN  topic_keywords[best][1]
        ELSE "GENERAL"

\* any(word in query.lower() for word in words)
any_word_in(words, query) ==
    \E k \in 1..Len(words) : Contains(str_lower(query), words[k])

\* priorities that rank green like the parallel hats
determine_search_priorities_green_high(query, complexity, topic) ==
    << <<"WHITE", "CRITICAL">>,
       <<"RED", IF topic \in {"EMOTIONAL", "SOCIAL"} \/ any_word_in(red_words, query)
                THEN "HIGH" ELSE "MEDIUM">>,
       <<"YELLOW", IF topic = "BUSINESS" \/ complexity = "COMPLEX"
                      \/ any_word_in(yellow_words, query)
                   THEN "HIGH" ELSE "MEDIUM">>,
       <<"BLACK", IF topic \in {"HEALTH", "SAFETY"} \/ any_word_in(black_words, query)
                  THEN "HIGH" ELSE "MEDIUM">>,
       <<"GREEN", IF complexity = "COMPLEX" \/ any_word_in(green_words, query)
                  THEN "HIGH" ELSE "MEDIUM">>,
       <<"BLUE", "LOW">> >>

\* ManagerAgent._determine_search_priorities: the priorities dict, in insertion order
determine_search_priorities(query, complexity, topic) ==
    << <<"WHITE", "CRITICAL">>,
       <<"RED", IF topic \in {"EMOTIONAL", "SOCIAL"} \/ any_word_in(red_words, query)
                THEN "HIGH" ELSE "MEDIUM">>,
       <<"YELLOW", IF topic = "BUSINESS" \/ complexity = "COMPLEX"
                      \/ any_word_in(yellow_words, query)
                   THEN "HIGH" ELSE "MEDIUM">>,
       <<"BLACK", IF topic \in {"HEALTH", "SAFETY"} \/ any_word_in(black_words, query)
                  THEN "HIGH" ELSE "MEDIUM">>,
       <<"GREEN", IF complexity = "COMPLEX" \/ any_word_in(green_words, query)
                  THEN "MEDIUM" ELSE "LOW">>,
       <<"BLUE", "LOW">> >>

\* the search query of one hat: f"{query} {search_terms}"
search_query_for(hat_type, query, topic) ==
    CASE hat_type = "WHITE" -> query \o white_suffix
      [] hat_type = "RED" -> query \o <<" ">> \o emotion_terms(topic)
      [] hat_type = "YELLOW" -> query \o <<" ">> \o yellow_terms(topic)
      [] hat_type = "BLACK" -> query \o <<" ">> \o black_terms(topic)
      [] hat_type = "GREEN" -> query \o green_suffix
      [] hat_type = "BLUE" -> query \o blue_suffix

\* ManagerAgent._generate_search_queries: one entry per allocated hat, in allocation
\* order (the dict search_queries as <<hat, query>> pairs)
generate_search_queries(query, topic, budget_allocation) ==
    [i \in 1..Len(budget_allocation) |->
        <<budget_allocation[i], search_query_for(budget_allocation[i], query, topic)>>]

\* ManagerAgent.analyze_query; raised is the IndexError of _allocate_search_budget.
\* The rationale string is text for the reader and is left out.
analyze_query(query) ==
    LET complexity == determine_complexity(query)
        topic == classify_topic(query)
        search_recommendations_ == determine_search_priorities(query, complexity, topic)
        allocation == allocate_search_budget(search_recommendations_)
    IN  [raised |-> allocation.raised,
         complexity |-> complexity,
         topic |-> topic,
         search_recommendations |-> search_recommendations_,
         search_queries |-> generate_search_queries(query, topic, allocation.value),
         budget_allocation |-> allocation.value]

TextTeaSolution ==
    <<"t", "e", "a", " ", "s", "o", "l", "u", "t", "i", "o", "n">>

TextStartup ==
    <<"s", "t", "a", "r", "t", "u", "p">>

TextStartupRisks ==
    <<"s", "t", "a", "r", "t", "u", "p", " ", "r", "i", "s", "k", "s">>

\* the queries put to the workflow: a general one; a business one; and a business one
\* that shares its words with the second and, naming a risk, ranks the hats differently
UserQueries == {TextTeaSolution, TextStartup, TextStartupRisks}

\* the search queries put to an orchestrator that is called directly (SpecOrch): two
\* of the same words in a different order (near-duplicates with different cache
\* keys) and the empty query, which shares no word with them and which the detector
\* never matches (union = 0)
QueryAB == <<"a", " ", "b">>

QueryBA == <<"b", " ", "a">>

OrchQueries == {QueryAB, QueryBA, <<>>}

\* s repeated n times
RECURSIVE str_times(_, _)
str_times(s, n) == IF n = 0 THEN <<>> ELSE s \o str_times(s, n - 1)

TextAnd == <<" ", "a", "n", "d", " ", "b">>
TextQuestionMarks == <<"?", "?">>
TextCommas == <<",", ",", ",">>

\* queries put together from parts that decide the four indicators of the
\* complexity: the word "tea" and padding further one-letter words, a technical term
\* or none, a comparison word or none, and a second clause (an " and ", two question
\* marks, three commas) or none; 12 padding words bring the query to 13 words, and
\* with the words of the other parts to 13 .. 17
ComplexityParts ==
    [padding : {0, 12, 15},
     technical : {<<>>, <<" ", "q", "u", "a", "n", "t", "u", "m">>, <<" ", "b", "l", "o", "c", "k", "c", "h", "a", "i", "n">>},
     comparative : {<<>>, <<" ", "c", "o", "m", "p", "a", "r", "e">>, <<" ", "t", "r", "a", "d", "e", "-", "o", "f", "f">>},
     multiple : {<<>>, TextAnd, TextQuestionMarks, TextCommas}]

ComplexityQuery(parts) ==
    <<"t", "e", "a">> \o str_times(<<" ", "a">>, parts.padding)
      \o parts.technical \o parts.comparative \o parts.multiple

\* words that raise the tier of the red, yellow, black and green participant
PriorityWords == <<<<" ", "f", "e", "e", "l">>, <<" ", "b", "e", "n", "e", "f", "i", "t">>, <<" ", "r", "i", "s", "k">>, <<" ", "s", "o", "l", "u", "t", "i", "o", "n">>>>

\* the word "tea" followed by the chosen words
PriorityQuery(chosen) ==
    <<"t", "e", "a">> \o (IF 1 \in chosen THEN PriorityWords[1] ELSE <<>>)
      \o (IF 2 \in chosen THEN PriorityWords[2] ELSE <<>>)
      \o (IF 3 \in chosen THEN PriorityWords[3] ELSE <<>>)
      \o (IF 4 \in chosen THEN PriorityWords[4] ELSE <<>>)

\* the queries put to the query analyzer alone (SpecAnalysis)
AnalysisQueries ==
    {ComplexityQuery(parts) : parts \in ComplexityParts}
      \cup {PriorityQuery(chosen) : chosen \in SUBSET (1..4)}

\* analyze_query of every user query (the analysis reads nothing but the query)
analysis_of == [q \in UserQueries \cup AnalysisQueries |-> analyze_query(q)]

-----------------------------------------------------------------------------
(* services/phased_search_orchestrator.py: SearchCache *)

\* hat_type.value of the HatType enum, the participant name used by the orchestrator
HatValue(h) ==
    CASE h = "WHITE" -> <<"w", "h", "i", "t", "e">>
      [] h = "RED" -> <<"r", "e", "d">>
      [] h = "YELLOW" -> <<"y", "e", "l", "l", "o", "w">>
      [] h = "BLACK" -> <<"b", "l", "a", "c", "k">>
      [] h = "GREEN" -> <<"g", "r", "e", "e", "n">>
      [] h = "BLUE" -> <<"b", "l", "u", "e">>

\* SearchCache(ttl_seconds=3600)
ttl_seconds == 3600

\* a cache key that leaves the participant out
generate_cache_key_no_hat(query, hat_name) == str_strip(str_lower(query))

\* f"{hat_name}:{query.lower().strip()}"; md5 is taken to be collision-free, so the
\* digest is represented by the string it is computed from
generate_cache_key(query, hat_name) ==
    hat_name \o <<":">> \o str_strip(str_lower(query))

\* the dict without one key (del self.cache[cache_key])
dict_del(d, k) == [x \in (DOMAIN d) \ {k} |-> d[x]]

\* the dict with d[k] = v
dict_put(d, k, v) == [x \in (DOMAIN d) \cup {k} |-> IF x = k THEN v ELSE d[x]]

\* a TTL test that never lets an entry expire
cache_entry_never_expires(timestamp, t) == TRUE

\* a TTL test that still accepts an entry whose age equals the TTL
cache_entry_fresh_inclusive(timestamp, t) == t - timestamp <= ttl_seconds

\* datetime.now() - timestamp < timedelta(seconds=self.ttl_seconds)
cache_entry_fresh(timestamp, t) == t - timestamp < ttl_seconds

\* a get that reports an expired entry as a miss but leaves it in the cache
cache_get_no_purge(c, query, hat_name, t) ==
    LET cache_key == generate_cache_key(query, hat_name)
    IN  IF cache_key \in DOMAIN c /\ cache_entry_fresh(c[cache_key].timestamp, t)
        THEN [found |-> TRUE, data |-> c[cache_key].data, cache |-> c]
        ELSE [found |-> FALSE, data |-> <<>>, cache |-> c]

\* SearchCache.get: what it returns (found = "is not None") and the cache it leaves
cache_get(c, query, hat_name, t) ==
    LET cache_key == generate_cache_key(query, hat_name)
    IN  IF cache_key \in DOMAIN c
        THEN IF cache_entry_fresh(c[cache_key].timestamp, t)
             THEN [found |-> TRUE, data |-> c[cache_key].data, cache |-> c]
             ELSE [found |-> FALSE, data |-> <<>>, cache |-> dict_del(c, cache_key)]
        ELSE [found |-> FALSE, data |-> <<>>, cache |-> c]

\* SearchCache.set: self.cache[cache_key] = (results, datetime.now())
cache_set(c, query, hat_name, results, t) ==
    dict_put(c, generate_cache_key(query, hat_name), [data |-> results, timestamp |-> t])

-----------------------------------------------------------------------------
(* services/phased_search_orchestrator.py: DuplicateDetector *)

\* DuplicateDetector(similarity_threshold=0.8), as the fraction 4/5
similarity_threshold_num == 4
similarity_threshold_den == 5

\* a similarity that divides by the size of the new query's word set
containment_meets_threshold(new_words, existing_words) ==
    LET intersection == Cardinality(new_words \cap existing_words)
    IN  /\ new_words # {}
        /\ intersection * similarity_threshold_den
              >= similarity_threshold_num * Cardinality(new_words)

\* the threshold test with the comparison turned round
similarity_below_threshold(new_words, existing_words) ==
    LET intersection == Cardinality(new_words \cap existing_words)
        union == Cardinality(new_words \cup existing_words)
    IN  /\ union > 0
        /\ intersection * similarity_threshold_den <= similarity_threshold_num * union

\* union > 0 and intersection / union >= self.similarity_threshold
similarity_meets_threshold(new_words, existing_words) ==
    LET intersection == Cardinality(new_words \cap existing_words)
        union == Cardinality(new_words \cup existing_words)
    IN  /\ union > 0
        /\ intersection * similarity_threshold_den >= similarity_threshold_num * union

\* set(query.lower().split())
query_words(query) == str_split_set(str_lower(query))

\* query_words of the search queries that can be generated for UserQueries, and of
\* OrchQueries
known_query_words ==
    [q \in {search_query_for(h, u, t) : h \in HatType, u \in UserQueries, t \in Topic}
            \cup OrchQueries
        |-> str_split_set(str_lower(q))]

\* set(query.lower().split()), looked up where it has been computed before
words_of(query) ==
    IF query \in DOMAIN known_query_words
    THEN known_query_words[query]
    ELSE query_words(query)

\* a detector that keeps comparing after a match and returns the last entry of
\* existing_queries that meets the threshold
RECURSIVE is_duplicate_last_match(_, _)
is_duplicate_last_match(new_query, existing_queries) ==
    IF existing_queries = <<>>
    THEN [dup |-> FALSE, matched |-> <<>>]
    ELSE LET rest == is_duplicate_last_match(new_query, Tail(existing_queries))
             existing_query == Head(existing_queries)[1]
         IN  IF rest.dup THEN rest
             ELSE IF similarity_meets_threshold(words_of(new_query),
                                                words_of(existing_query))
             THEN [dup |-> TRUE, matched |-> existing_query]
             ELSE rest

\* DuplicateDetector.is_duplicate: the first entry of existing_queries, in list order,
\* that meets the threshold; existing_queries is a sequence of <<query, hat_name>>
RECURSIVE is_duplicate(_, _)
is_duplicate(new_query, existing_queries) ==
    IF existing_queries = <<>>
    THEN [dup |-> FALSE, matched |-> <<>>]
    ELSE LET new_words == words_of(new_query)
             existing_query == Head(existing_queries)[1]
             existing_words == words_of(existing_query)
         IN  IF similarity_meets_threshold(new_words, existing_words)
             THEN [dup |-> TRUE, matched |-> existing_query]
             ELSE is_duplicate(new_query, Tail(existing_queries))

-----------------------------------------------------------------------------
(* services/search_apis.py: TavilySearchAPI *)

\* what the Tavily client does with a request: it answers with results, or it raises
\* (a time-out, a network or an API error)
ProviderResponses == {"results", "error"}

\* a search that lets the exception of the client through
tavily_search_uncaught(response) ==
    [raised |-> response = "error",
     results |-> IF response = "results" THEN <<"r1">> ELSE <<>>]

\* TavilySearchAPI.search: the results (a result is named by its title), or [] when
\* the client raises; it never raises itself
tavily_search(response) ==
    [raised |-> FALSE,
     results |-> IF response = "results" THEN <<"r1">> ELSE <<>>]

\* what search_api.search can return
ProviderResults == {tavily_search(response) : response \in ProviderResponses}

-----------------------------------------------------------------------------
(* services/phased_search_orchestrator.py: PhasedSearchOrchestrator *)

\* the search_stats dict of a new orchestrator
NewSearchStats ==
    [total_queries |-> 0, total_searches |-> 0, cache_hits |-> 0,
     duplicates_prevented |-> 0]

\* HatSearchContext; execution_time is "zero" for the literal 0.0 and "measured" for a
\* difference of two time.time() readings; the metadata keys that vary are kept
HatSearchContext(hat_type, search_query, search_results, cache_hit, execution_time, has_duplicate_of, duplicate_of, phase) ==
    [hat_type |-> hat_type, search_query |-> search_query,
     search_results |-> search_results, cache_hit |-> cache_hit,
     execution_time |-> execution_time,
     metadata |-> [has_duplicate_of |-> has_duplicate_of,
                   duplicate_of |-> duplicate_of, phase |-> phase]]

\* results[hat_type] = context on a dict kept as a sequence of contexts in insertion
\* order: a key that is present keeps its place
results_put(results, context) ==
    IF \E i \in 1..Len(results) : results[i].hat_type = context.hat_type
    THEN [i \in 1..Len(results) |->
            IF results[i].hat_type = context.hat_type THEN context ELSE results[i]]
    ELSE Append(results, context)

\* a cache test that takes an empty result list for a miss
is_cache_hit_truthy(g) == g.found /\ g.data # <<>>

\* cache_hit = cached_results is not None
is_cache_hit(g) == g.found

\* a registration that does nothing
add_query_skipped(registry, query, hat_name) == registry

\* a registration that puts the query in front of the older ones
add_query_at_front(registry, query, hat_name) == <<<<query, hat_name>>>> \o registry

\* DuplicateDetector.add_query: self.query_registry.append((query, hat_name))
add_query(registry, query, hat_name) == Append(registry, <<query, hat_name>>)

\* a budget test that lets the call through when the budget is just used up
budget_used_up_strict(current_budget_used, limit) == current_budget_used > limit

\* if current_budget_used >= self.max_searches: return None
budget_used_up(current_budget_used, limit) == current_budget_used >= limit

\* a loop test that never ends the wave
budget_never_exhausted(search_count, limit) == FALSE

\* if search_count >= self.max_searches: break
budget_exhausted(search_count, limit) == search_count >= limit

\* whether neither the duplicate detector nor the cache knows the query
query_is_fresh(w, hat_type, search_query, t) ==
    /\ ~is_duplicate(search_query, w.registered_queries).dup
    /\ ~cache_get(w.cache, search_query, hat_type, t).found

\* the orchestrator and the locals of the wave as one item of the wave finds or
\* leaves them
wave_snapshot(w) ==
    [cache |-> w.cache, query_registry |-> w.query_registry, stats |-> w.stats,
     results |-> w.results, search_count |-> w.search_count, calls |-> w.calls]

\* what the wave did with one item: the outcome, whether the query was fresh, what
\* the duplicate detector said, and the wave before and after the item
wave_record(w, w_after, hat_type, search_query, outcome, t) ==
    LET d == is_duplicate(search_query, w.registered_queries)
    IN  [hat_type |-> hat_type, search_query |-> search_query, outcome |-> outcome,
         fresh |-> query_is_fresh(w, hat_type, search_query, t),
         dup |-> d.dup, matched |-> d.matched, at |-> t,
         before |-> wave_snapshot(w), after |-> wave_snapshot(w_after)]

\* one pass of the loop body of execute_initial_search_wave, after the budget test;
\* w carries the locals and the orchestrator fields the loop updates, api_result is
\* what search_api.search returns (or that it raises) if it is called, and calls
\* counts the calls of search_api.search; an exception leaves the method
wave_item_effect(w, hat_type, search_query, api_result, t) ==
    LET d == is_duplicate(search_query, w.registered_queries)
        g == cache_get(w.cache, search_query, hat_type, t)
    IN  IF d.dup
        THEN [w EXCEPT
                !.stats.duplicates_prevented = @ + 1,
                !.cache = g.cache,
                !.results =
                    IF g.found /\ g.data # <<>>
                    THEN results_put(@, HatSearchContext(hat_type, search_query, g.data,
                                         TRUE, "zero", TRUE, d.matched, "initial"))
                    ELSE @,
                !.search_count = @ + 1]
        ELSE IF is_cache_hit(g)
        THEN [w EXCEPT
                !.stats.cache_hits = @ + 1,
                !.cache = g.cache,
                !.results = results_put(@, HatSearchContext(hat_type, search_query,
                                g.data, TRUE, "measured", FALSE, <<>>, "initial")),
                !.search_count = @ + 1]
        ELSE IF api_result.raised
        THEN [w EXCEPT !.cache = g.cache, !.calls = @ + 1, !.raised = TRUE]
        ELSE [w EXCEPT
                !.cache = cache_set(g.cache, search_query, hat_type, api_result.results, t),
                !.query_registry = add_query(@, search_query, hat_type),
                !.registered_queries = Append(@, <<search_query, hat_type>>),
                !.results = results_put(@, HatSearchContext(hat_type, search_query,
                                api_result.results, FALSE, "measured", FALSE, <<>>,
                                "initial")),
                !.search_count = @ + 1,
                !.calls = @ + 1]

\* the branch of the loop body an item takes
wave_item_outcome(w, hat_type, search_query, t) ==
    IF is_duplicate(search_query, w.registered_queries).dup THEN "duplicate"
    ELSE IF is_cache_hit(cache_get(w.cache, search_query, hat_type, t)) THEN "cache_hit"
    ELSE "searched"

\* the loop body, and the record of what it did appended to outcomes
wave_item(w, hat_type, search_query, api_result, t) ==
    LET w_after == wave_item_effect(w, hat_type, search_query, api_result, t)
    IN  [w_after EXCEPT !.outcomes =
            Append(@, wave_record(w, w_after, hat_type, search_query,
                                  IF w_after.raised THEN "raised"
                                  ELSE wave_item_outcome(w, hat_type, search_query, t),
                                  t))]

\* the items the loop does not reach after its break
RECURSIVE wave_skipped(_, _, _)
wave_skipped(w, items, t) ==
    IF items = <<>> THEN w
    ELSE CHOOSE w_end \in
            {wave_skipped(w_next, Tail(items), t) :
                w_next \in {[w EXCEPT !.outcomes =
                               Append(@, wave_record(w, w, Head(items)[1],
                                                     Head(items)[2], "skipped", t))]}} :
            TRUE

\* for hat_type, search_query in hat_search_queries.items(): ...; w_next is the wave
\* after the item and w_end the wave after the loop
RECURSIVE wave_loop(_, _, _, _, _)
wave_loop(w, items, api, limit, t) ==
    IF items = <<>> \/ w.raised THEN w
    ELSE IF budget_exhausted(w.search_count, limit)
         THEN wave_skipped(w, items, t)
         ELSE CHOOSE w_end \in
                 {wave_loop(w_next, Tail(items), api, limit, t) :
                     w_next \in {wave_item(w, Head(items)[1], Head(items)[2],
                                           api[Len(w.outcomes) + 1], t)}} :
                 TRUE

\* PhasedSearchOrchestrator.execute_initial_search_wave on the orchestrator o =
\* [cache, query_registry, stats]; hat_search_queries is the dict as <<hat, query>>
\* pairs and api[i] is what the provider returns for its i-th item; raised tells
\* whether the method was left by an exception
execute_initial_search_wave(o, hat_search_queries, api, limit, t) ==
    LET w0 == [results |-> <<>>, search_count |-> 0,
               registered_queries |-> o.query_registry,
               cache |-> o.cache, query_registry |-> o.query_registry,
               stats |-> o.stats, calls |-> 0, outcomes |-> <<>>, raised |-> FALSE]
        w == wave_loop(w0, hat_search_queries, api, limit, t)
    IN  IF w.raised THEN w
        ELSE [w EXCEPT !.stats.total_searches = @ + w.search_count,
                       !.stats.total_queries = @ + 1]

hat_never_searches_none(hat_type) == FALSE

\* if hat_type == "blue": return None
hat_never_searches(hat_type) == hat_type = HatValue("BLUE")

\* PhasedSearchOrchestrator.execute_sequential_search; returned is FALSE for None, and
\* raised tells whether the method was left by an exception
execute_sequential_search(o, hat_type, search_query, current_budget_used, api_result, limit, t) ==
    LET none == [returned |-> FALSE,
                 context |-> HatSearchContext(hat_type, search_query, <<>>, FALSE,
                                              "zero", FALSE, <<>>, "sequential"),
                 cache |-> o.cache, query_registry |-> o.query_registry,
                 stats |-> o.stats, calls |-> 0, raised |-> FALSE]
        d == is_duplicate(search_query, o.query_registry)
        g == cache_get(o.cache, search_query, hat_type, t)
    IN  IF budget_used_up(current_budget_used, limit) THEN none
        ELSE IF hat_never_searches(hat_type) THEN none
        ELSE IF d.dup
        THEN [none EXCEPT !.stats.duplicates_prevented = @ + 1]
        ELSE IF is_cache_hit(g)
        THEN [returned |-> TRUE,
              context |-> HatSearchContext(hat_type, search_query, g.data, TRUE,
                                           "measured", FALSE, <<>>, "sequential"),
              cache |-> g.cache, query_registry |-> o.query_registry,
              stats |-> [o.stats EXCEPT !.cache_hits = @ + 1,
                                        !.total_searches = @ + 1],
              calls |-> 0, raised |-> FALSE]
        ELSE IF api_result.raised
        THEN [none EXCEPT !.cache = g.cache, !.calls = 1, !.raised = TRUE]
        ELSE [returned |-> TRUE,
              context |-> HatSearchContext(hat_type, search_query, api_result.results,
                                           FALSE, "measured", FALSE, <<>>, "sequential"),
              cache |-> cache_set(g.cache, search_query, hat_type, api_result.results, t),
              query_registry |-> add_query(o.query_registry, search_query, hat_type),
              stats |-> [o.stats EXCEPT !.total_searches = @ + 1],
              calls |-> 1, raised |-> FALSE]

\* the hats whose context holds at least one result ("if context and
\* context.search_results"), the keys of search_insights and of search_evidence
hats_with_results(search_contexts) ==
    {search_contexts[i].hat_type :
        i \in {j \in 1..Len(search_contexts) : search_contexts[j].search_results # <<>>}}

\* PhasedSearchOrchestrator.aggregate_hat_contexts; the themes and opportunities are
\* read off the response texts, which the model does not carry
aggregate_hat_contexts(hat_responses, search_contexts) ==
    [parallel_responses |-> hat_responses,
     search_insights |-> hats_with_results(search_contexts)]

\* PhasedSearchOrchestrator.build_synthesis_context
build_synthesis_context(all_perspectives, search_contexts) ==
    [all_perspectives |-> all_perspectives,
     search_evidence |-> hats_with_results(search_contexts)]

-----------------------------------------------------------------------------
(* Values the variables hold while the component they belong to is not exercised *)

NoAllocation == [done |-> FALSE, raised |-> FALSE, value |-> <<>>]

NoSet == [valid |-> FALSE, results |-> <<>>, at |-> 0]

NoGet == [valid |-> FALSE, arg |-> 0, found |-> FALSE, data |-> <<>>]

NoDupOut == [done |-> FALSE, ab |-> FALSE, ba |-> FALSE]

AllocIdle == search_recommendations = <<>> /\ allocated = NoAllocation

CacheIdle ==
    /\ cache = <<>>
    /\ now = 0
    /\ advances = 0
    /\ args = <<>>
    /\ lastSet = <<>>
    /\ lastGet = NoGet

DupIdle == dupArgs = <<>> /\ dupOut = NoDupOut

NoCall == [method |-> "none"]

OrchIdle == lastCall = NoCall

NoAnalysis ==
    [set |-> FALSE, complexity |-> "", topic |-> "", search_recommendations |-> <<>>,
     search_queries |-> <<>>, budget_allocation |-> <<>>]

NoResponse == [set |-> FALSE, text |-> "", prompt |-> <<>>]

NoGreenContext == [set |-> FALSE, parallel_responses |-> <<>>, search_insights |-> {}]

\* initial_state of invoke, with the channels LangGraph has not written yet; errors,
\* phase_completed and processing_stats start empty (their reducers)
InitialState(query) ==
    [query |-> query,
     query_analysis |-> NoAnalysis,
     search_contexts |-> [set |-> FALSE, value |-> <<>>],
     responses |-> [h \in HatType |-> NoResponse],
     green_context |-> NoGreenContext,
     processing_stats |-> <<>>,
     errors |-> <<>>,
     phase_completed |-> <<>>]

\* the state before the first invoke
NoState == InitialState(<<>>)

\* a run started by invoke yields nothing
NoStream == [active |-> FALSE, events |-> <<>>]

WorkflowIdle ==
    /\ max_searches = 0
    /\ query_registry = <<>>
    /\ search_stats = NewSearchStats
    /\ agent_search_results = <<>>
    /\ state = NoState
    /\ pc = "idle"
    /\ pending = {}
    /\ runs = 0
    /\ search_api_calls = 0
    /\ wave_outcomes = <<>>
    /\ faults = 0
    /\ raises = 0
    /\ stream = NoStream

-----------------------------------------------------------------------------
(* SpecAlloc: _allocate_search_budget applied to every priority map *)

InsertAt(s, i, x) == SubSeq(s, 1, i - 1) \o <<x>> \o SubSeq(s, i, Len(s))

\* The key orders of the priority maps: WHITE is the one hat the allocator names, so
\* the other hats keep their enum order and WHITE is absent or at any position.
HatKeyOrders ==
    UNION { LET base == SelectSeq(Tail(HatOrder), LAMBDA h : h \in S)
            IN  {base} \cup {InsertAt(base, i, "WHITE") : i \in 1..(Len(base) + 1)}
          : S \in SUBSET (HatType \ {"WHITE"}) }

AllocInit ==
    /\ \E hs \in HatKeyOrders :
         \E ps \in [1..Len(hs) -> SearchPriority] :
            search_recommendations = [i \in 1..Len(hs) |-> <<hs[i], ps[i]>>]
    /\ allocated = NoAllocation
    /\ CacheIdle
    /\ DupIdle
    /\ WorkflowIdle
    /\ OrchIdle

\* budget_allocation = self._allocate_search_budget(search_recommendations)
Allocate ==
    /\ LET r == allocate_search_budget(search_recommendations)
       IN  allocated' = [done |-> TRUE, raised |-> r.raised, value |-> r.value]
    /\ UNCHANGED <<search_recommendations, cacheVars, dupVars, wfVars, orchVars>>

AllocNext == Allocate

SpecAlloc == AllocInit /\ [][AllocNext]_vars

-----------------------------------------------------------------------------
(* SpecCache: SearchCache.set and SearchCache.get under a clock *)

\* how often the clock is advanced in a behaviour
MaxAdvances == 2

\* query strings that differ in case, surrounding whitespace and inner whitespace
CacheQueries ==
    { <<"a">>, <<"A">>, <<" ", "a", " ">>, <<"a", " ", "b">>, <<"a", "b">>, <<>> }

CacheHats == {HatValue("WHITE"), HatValue("RED")}

\* result lists as the provider returns them (a result is named by its title)
ResultLists == { <<>>, <<"r1">> }

\* the clock steps: a moment, and just short of the TTL
Delays == {1, ttl_seconds - 1}

CacheInit ==
    /\ cache = <<>>
    /\ now = 0
    /\ advances = 0
    /\ args \in [1..2 -> [hat : CacheHats, query : CacheQueries]]
    /\ lastSet = [newest |-> 0, calls |-> [i \in 1..2 |-> NoSet]]
    /\ lastGet = NoGet
    /\ AllocIdle
    /\ DupIdle
    /\ WorkflowIdle
    /\ OrchIdle

\* cache.set(query, hat_name, results)
CacheSet(i, results) ==
    /\ cache' = cache_set(cache, args[i].query, args[i].hat, results, now)
    /\ lastSet' = [newest |-> i,
                   calls |-> [lastSet.calls EXCEPT ![i] =
                                 [valid |-> TRUE, results |-> results, at |-> now]]]
    /\ lastGet' = NoGet
    /\ UNCHANGED <<now, advances, args, allocVars, dupVars, wfVars, orchVars>>

\* cache.get(query, hat_name)
CacheGet(i) ==
    /\ LET r == cache_get(cache, args[i].query, args[i].hat, now)
       IN  /\ cache' = r.cache
           /\ lastGet' = [valid |-> TRUE, arg |-> i, found |-> r.found, data |-> r.data]
    /\ UNCHANGED <<now, advances, args, lastSet, allocVars, dupVars, wfVars, orchVars>>

\* time passes
Advance(d) ==
    /\ advances < MaxAdvances
    /\ now' = now + d
    /\ advances' = advances + 1
    /\ lastGet' = NoGet
    /\ UNCHANGED <<cache, args, lastSet, allocVars, dupVars, wfVars, orchVars>>

CacheNext ==
    \/ \E i \in 1..2 : \E results \in ResultLists : CacheSet(i, results)
    \/ \E i \in 1..2 : CacheGet(i)
    \/ \E d \in Delays : Advance(d)

SpecCache == CacheInit /\ [][CacheNext]_vars

-----------------------------------------------------------------------------
(* SpecDup: DuplicateDetector.is_duplicate on pairs of query strings *)

DupWords == {"a", "b", "c", "d", "e"}

\* " ".join(words), the words in alphabetical order
RECURSIVE JoinWords(_, _)
JoinWords(order, S) ==
    IF order = <<>> THEN <<>>
    ELSE LET rest == JoinWords(Tail(order), S)
         IN  IF Head(order) \in S
             THEN IF rest = <<>> THEN <<Head(order)>> ELSE <<Head(order), " ">> \o rest
             ELSE rest

UpperChar(c) ==
    CASE c = "a" -> "A"
      [] c = "b" -> "B"
      [] c = "c" -> "C"
      [] c = "d" -> "D"
      [] c = "e" -> "E"
      [] OTHER -> c

\* every set of words as a query, also upper-cased, in reverse word order, and padded
DupQueries ==
    LET bases == {JoinWords(<<"a", "b", "c", "d", "e">>, S) : S \in SUBSET DupWords}
    IN  bases
        \cup {[i \in 1..Len(b) |-> UpperChar(b[i])] : b \in bases}
        \cup {Reverse(b) : b \in bases}
        \cup {<<" ">> \o b \o <<"\t", " ">> \o b : b \in bases}

DupInit ==
    /\ dupArgs \in [a : DupQueries, b : DupQueries, h : {HatValue("WHITE")}]
    /\ dupOut = NoDupOut
    /\ AllocIdle
    /\ CacheIdle
    /\ WorkflowIdle
    /\ OrchIdle

\* is_duplicate(a, [(b, h)]) and is_duplicate(b, [(a, h)])
CheckDuplicates ==
    /\ ~dupOut.done
    /\ dupOut' = [done |-> TRUE,
                  ab |-> is_duplicate(dupArgs.a, << <<dupArgs.b, dupArgs.h>> >>).dup,
                  ba |-> is_duplicate(dupArgs.b, << <<dupArgs.a, dupArgs.h>> >>).dup]
    /\ UNCHANGED <<dupArgs, allocVars, cacheVars, wfVars, orchVars>>

DupNext == CheckDuplicates

SpecDup == DupInit /\ [][DupNext]_vars

-----------------------------------------------------------------------------
(* SpecRegistry: a DuplicateDetector object, its registry filled by add_query *)

\* how many queries are registered in a behaviour
MaxRegistry == 2

TextStartupFundingRisks ==
    <<"s", "t", "a", "r", "t", "u", "p", " ", "f", "u", "n", "d", "i", "n", "g", " ",
      "r", "i", "s", "k", "s">>

TextStartupFundingDangers ==
    <<"s", "t", "a", "r", "t", "u", "p", " ", "f", "u", "n", "d", "i", "n", "g", " ",
      "d", "a", "n", "g", "e", "r", "s">>

\* queries of four and five words, any two of which share at least three words, and
\* two queries of three words that share two
RegistryQueries ==
    {JoinWords(<<"a", "b", "c", "d", "e">>, S) :
        S \in {T \in SUBSET DupWords : Cardinality(T) >= 4}}
    \cup {TextStartupFundingRisks, TextStartupFundingDangers}

RegistryHats == {HatValue("WHITE")}

RegistryInit ==
    /\ query_registry = <<>>
    /\ lastCall = NoCall
    /\ max_searches = 0
    /\ search_stats = NewSearchStats
    /\ agent_search_results = <<>>
    /\ state = NoState
    /\ pc = "idle"
    /\ pending = {}
    /\ runs = 0
    /\ search_api_calls = 0
    /\ wave_outcomes = <<>>
    /\ faults = 0
    /\ raises = 0
    /\ stream = NoStream
    /\ AllocIdle
    /\ CacheIdle
    /\ DupIdle

\* duplicate_detector.add_query(query, hat_name)
AddQuery(query, hat_name) ==
    /\ Len(query_registry) < MaxRegistry
    /\ query_registry' = add_query(query_registry, query, hat_name)
    /\ lastCall' = [method |-> "add_query", new_query |-> query,
                    existing_queries |-> query_registry,
                    result |-> [dup |-> FALSE, matched |-> <<>>]]
    /\ UNCHANGED <<stream, max_searches, search_stats, agent_search_results, state, pc,
                   pending, runs, search_api_calls, wave_outcomes, faults, raises,
                   allocVars, cacheVars, dupVars>>

\* duplicate_detector.is_duplicate(new_query, duplicate_detector.get_registered_queries())
IsDuplicate(new_query) ==
    /\ lastCall' = [method |-> "is_duplicate", new_query |-> new_query,
                    existing_queries |-> query_registry,
                    result |-> is_duplicate(new_query, query_registry)]
    /\ UNCHANGED <<wfVars, allocVars, cacheVars, dupVars>>

\* duplicate_detector.clear_registry()
ClearRegistry ==
    /\ query_registry # <<>>
    /\ query_registry' = <<>>
    /\ lastCall' = [method |-> "clear_registry", new_query |-> <<>>,
                    existing_queries |-> query_registry,
                    result |-> [dup |-> FALSE, matched |-> <<>>]]
    /\ UNCHANGED <<stream, max_searches, search_stats, agent_search_results, state, pc,
                   pending, runs, search_api_calls, wave_outcomes, faults, raises,
                   allocVars, cacheVars, dupVars>>

RegistryNext ==
    \/ \E query \in RegistryQueries : \E hat_name \in RegistryHats :
          AddQuery(query, hat_name)
    \/ \E new_query \in RegistryQueries : IsDuplicate(new_query)
    \/ ClearRegistry

SpecRegistry == RegistryInit /\ [][RegistryNext]_vars

-----------------------------------------------------------------------------
(* graph/phased_workflow_graph.py: PhasedWorkflowGraph, the specification Spec *)

\* the largest budget max_searches_per_query a workflow is built with
MaxBudget == 4

\* how many queries one workflow object is invoked with
MaxRuns == 2

\* how often, in a behaviour, the language model raises or a request of the search
\* provider fails
MaxFaults == 1

\* how often, in a behaviour of SpecLive, the body of a node raises
MaxRaises == 1

\* the outcomes of a call of the language model: it answers, or it raises
LlmOutcomes == {ok \in BOOLEAN : ok \/ faults < MaxFaults}

\* whether the try block of a node raises outside the call of the language model
\* (analyze_query, the formatting of the search results into the prompt, ...)
StepRaises == {raised \in BOOLEAN : ~raised \/ raises > 0}

\* what search_api.search returns for the items of a wave, item by item
ApiOutcomes(n) ==
    {[i \in 1..n |-> tavily_search(responses[i])] :
        responses \in {r \in [1..n -> ProviderResponses] :
            Cardinality({i \in 1..n : r[i] = "error"}) <= MaxFaults - faults}}

\* how many of the requests of a wave failed
empty_searches(outcomes, api) ==
    Cardinality({i \in 1..Len(outcomes) :
                    /\ outcomes[i].outcome \in {"searched", "raised"}
                    /\ (api[i].raised \/ api[i].results = <<>>)})

\* the time between two invocations when it matters: the TTL of the cache
RunGaps == {ttl_seconds}

\* the hats of the parallel phase
ParallelHats == {"WHITE", "RED", "YELLOW", "BLACK"}

\* the key of a node's entry in processing_stats
StatsKey(h) ==
    CASE h = "WHITE" -> "white_hat"
      [] h = "RED" -> "red_hat"
      [] h = "YELLOW" -> "yellow_hat"
      [] h = "BLACK" -> "black_hat"
      [] h = "GREEN" -> "green_hat"
      [] h = "BLUE" -> "blue_hat"

\* the first words of the message a node appends to errors in its except branch
NodeFailed(h) ==
    CASE h = "WHITE" -> "White hat failed"
      [] h = "RED" -> "Red hat failed"
      [] h = "YELLOW" -> "Yellow hat failed"
      [] h = "BLACK" -> "Black hat failed"
      [] h = "GREEN" -> "Green hat failed"
      [] h = "BLUE" -> "Blue hat failed"

\* an except branch that leaves the response of the node unwritten
ErrorResponseMissing == [set |-> FALSE, text |-> "", prompt |-> <<>>]

\* '<hat>_response' of the except branch of a node: "Error: Unable to process <Hat>
\* Hat perspective."; no prompt has been sent
ErrorResponse == [set |-> TRUE, text |-> "Error: Unable to process", prompt |-> <<>>]

\* state.get('<hat>_response', '')
response_text(st, h) == IF st.responses[h].set THEN st.responses[h].text ELSE ""

\* state.get('search_contexts', {})
search_contexts_or_empty(st) ==
    IF st.search_contexts.set THEN st.search_contexts.value ELSE <<>>

\* state['search_contexts'].get(hat_name) if state.get('search_contexts') else None;
\* an empty dict is falsy
search_context_of(st, hat_name) ==
    LET contexts == search_contexts_or_empty(st)
        hits == {i \in 1..Len(contexts) : contexts[i].hat_type = hat_name}
    IN  IF hits = {}
        THEN [found |-> FALSE, search_results |-> <<>>]
        ELSE [found |-> TRUE,
              search_results |-> contexts[CHOOSE i \in hits : TRUE].search_results]

\* dict.get(hat_type, default) on a dict keyed by HatType members (<<hat, value>> pairs)
dict_get_hat(d, hat_type, default) ==
    LET hits == {i \in 1..Len(d) : d[i][1] = hat_type}
    IN  IF hits = {} THEN default ELSE d[CHOOSE i \in hits : TRUE][2]

\* a HatType member compared with a str: HatType is a plain Enum, which defines no
\* equality with its value, and the hash of a member is not the hash of its value
enum_key_equals_str(member, key) == FALSE

\* the index of the entry that d.get(key) finds when d is keyed by HatType members and
\* key is a str; 0 when it finds none
dict_index_of_str(d, key) ==
    LET hits == {i \in 1..Len(d) : enum_key_equals_str(d[i][1], key)}
    IN  IF hits = {} THEN 0 ELSE CHOOSE i \in hits : TRUE

\* <Hat>Agent.process of the four parallel hats: set_search_results is called only for
\* a non-empty result list, the system message carries the results the agent holds,
\* and an exception of the model call becomes the response text
agent_process(held_results, search_context, llm_ok) ==
    LET held == IF search_context.found /\ search_context.search_results # <<>>
                THEN search_context.search_results
                ELSE held_results
    IN  [search_results |-> held,
         response |-> [set |-> TRUE,
                       text |-> IF llm_ok THEN "answer" ELSE "Error: llm",
                       prompt |-> [search_results |-> held]]]

\* GreenHatAgent.process: the prompt is built from the aggregated context only
green_agent_process(held_results, aggregated_context, search_context, llm_ok) ==
    LET held == IF search_context.found /\ search_context.search_results # <<>>
                THEN search_context.search_results
                ELSE held_results
    IN  [search_results |-> held,
         response |-> [set |-> TRUE,
                       text |-> IF llm_ok THEN "answer" ELSE "Error: llm",
                       prompt |-> [parallel_responses |->
                                      IF aggregated_context.set
                                      THEN aggregated_context.parallel_responses
                                      ELSE <<>>]]]

\* BlueHatAgent.process
blue_agent_process(all_responses, synthesis_context, llm_ok) ==
    [set |-> TRUE,
     text |-> IF llm_ok THEN "answer" ELSE "Error: llm",
     prompt |-> [all_responses |-> all_responses,
                 search_evidence |-> synthesis_context.search_evidence]]

\* a graph that ends after green_hat
next_node_without_synthesis(node) ==
    CASE node = "query_analyzer" -> "search_orchestrator"
      [] node = "search_orchestrator" -> "parallel"
      [] node = "parallel" -> "aggregator"
      [] node = "aggregator" -> "green_hat"
      [] node = "green_hat" -> "idle"
      [] node = "blue_hat" -> "idle"

\* a graph whose four hats follow the query analyzer and are followed by the search
\* orchestrator
next_node_hats_first(node) ==
    CASE node = "query_analyzer" -> "parallel"
      [] node = "search_orchestrator" -> "aggregator"
      [] node = "parallel" -> "search_orchestrator"
      [] node = "aggregator" -> "green_hat"
      [] node = "green_hat" -> "blue_hat"
      [] node = "blue_hat" -> "idle"

\* a graph in which the edge that leaves green_hat leads back to the aggregator
next_node_revisiting(node) ==
    CASE node = "query_analyzer" -> "search_orchestrator"
      [] node = "search_orchestrator" -> "parallel"
      [] node = "parallel" -> "aggregator"
      [] node = "aggregator" -> "green_hat"
      [] node = "green_hat" -> "aggregator"
      [] node = "blue_hat" -> "idle"

\* the edges of _build_workflow: the node (or, for the four hats that follow the
\* search orchestrator, the superstep "parallel") that runs after a node; "idle" is END
next_node(node) ==
    CASE node = "query_analyzer" -> "search_orchestrator"
      [] node = "search_orchestrator" -> "parallel"
      [] node = "parallel" -> "aggregator"
      [] node = "aggregator" -> "green_hat"
      [] node = "green_hat" -> "blue_hat"
      [] node = "blue_hat" -> "idle"

\* the tasks a superstep starts with: the four hats when the edges lead to them
dispatched(node) == IF node = "parallel" THEN {"WHITE", "RED", "YELLOW", "BLACK"} ELSE {}

\* a runtime that starts the aggregator as soon as one hat has returned
superstep_complete_early(pending_after) == TRUE

\* the four hat nodes are the tasks of one superstep of the compiled graph, and the
\* node their edges lead to runs in the next superstep, once all of them have returned
superstep_complete(pending_after) == pending_after = {}

\* PhasedWorkflowGraph._determine_phase
determine_phase(node_name) ==
    IF node_name \in {"query_analyzer", "search_orchestrator"} THEN "phase_0_analysis"
    ELSE IF node_name \in {"white_hat", "red_hat", "yellow_hat", "black_hat"}
    THEN "phase_1_parallel"
    ELSE IF node_name \in {"aggregator", "green_hat"} THEN "phase_2_sequential"
    ELSE IF node_name = "blue_hat" THEN "phase_3_synthesis"
    ELSE "unknown"

\* the body of the loop of stream: one event for the update of the node that has just
\* returned; an event is told by its node and its phase (its data is what the node
\* returned and is read off the state)
yielded(s, node_name) ==
    IF s.active
    THEN [s EXCEPT !.events = Append(@, [node |-> node_name,
                                         phase |-> determine_phase(node_name)])]
    ELSE s

\* the orchestrator object of the workflow
Orchestrator == [cache |-> cache, query_registry |-> query_registry, stats |-> search_stats]

\* PhasedWorkflowGraph(llm, search_api, max_searches_per_query) before its first run
WorkflowBuilt ==
    /\ max_searches \in 0..MaxBudget
    /\ cache = <<>>
    /\ now = 0
    /\ advances = 0
    /\ query_registry = <<>>
    /\ search_stats = NewSearchStats
    /\ agent_search_results = [h \in HatType |-> <<>>]
    /\ state = NoState
    /\ pc = "idle"
    /\ pending = {}
    /\ runs = 0
    /\ search_api_calls = 0
    /\ wave_outcomes = <<>>
    /\ faults = 0
    /\ stream = NoStream
    /\ args = <<>>
    /\ lastSet = <<>>
    /\ lastGet = NoGet
    /\ AllocIdle
    /\ DupIdle
    /\ OrchIdle

\* a workflow whose node bodies raise only where the model call or the provider does
WorkflowInit == WorkflowBuilt /\ raises = 0

\* an invoke that starts from the final state of the run before it
InvokeCarryingOver(query) ==
    /\ pc = "idle"
    /\ runs < MaxRuns
    /\ runs' = runs + 1
    /\ state' = [state EXCEPT !.query = query, !.query_analysis = NoAnalysis,
                          !.processing_stats = <<>>, !.errors = <<>>,
                          !.phase_completed = <<>>]
    /\ pc' = "query_analyzer"
    /\ search_api_calls' = 0
    /\ wave_outcomes' = <<>>
    /\ stream' = NoStream
    /\ UNCHANGED <<max_searches, query_registry, search_stats, agent_search_results,
                   pending, faults, raises, allocVars, cacheVars, dupVars, orchVars>>

\* workflow.invoke(query): the graph starts at its entry point
Invoke(query) ==
    /\ pc = "idle"
    /\ runs < MaxRuns
    /\ runs' = runs + 1
    /\ state' = InitialState(query)
    /\ pc' = "query_analyzer"
    /\ search_api_calls' = 0
    /\ wave_outcomes' = <<>>
    /\ stream' = NoStream
    /\ UNCHANGED <<max_searches, query_registry, search_stats, agent_search_results,
                   pending, faults, raises, allocVars, cacheVars, dupVars, orchVars>>

\* _query_analyzer_node
QueryAnalyzerNode ==
    /\ pc = "query_analyzer"
    /\ \E raised \in StepRaises :
       LET query_analysis == analysis_of[state.query]
       IN  /\ raises' = raises - (IF raised THEN 1 ELSE 0)
           /\ state' =
             IF query_analysis.raised \/ raised
             THEN [state EXCEPT !.errors = Append(@, "Query analysis failed")]
             ELSE [state EXCEPT
                     !.query_analysis =
                        [set |-> TRUE,
                         complexity |-> query_analysis.complexity,
                         topic |-> query_analysis.topic,
                         search_recommendations |-> query_analysis.search_recommendations,
                         search_queries |-> query_analysis.search_queries,
                         budget_allocation |-> query_analysis.budget_allocation],
                     !.processing_stats = dict_put(@, "query_analysis",
                        [complexity |-> query_analysis.complexity,
                         topic |-> query_analysis.topic,
                         searches_allocated |-> Len(query_analysis.budget_allocation)]),
                     !.phase_completed = Append(@, "query_analysis")]
    /\ pc' = next_node("query_analyzer")
    /\ pending' = dispatched(pc')
    /\ stream' = yielded(stream, "query_analyzer")
    /\ UNCHANGED <<max_searches, query_registry, search_stats, agent_search_results,
                   runs, search_api_calls, wave_outcomes, faults,
                   allocVars, cacheVars, dupVars, orchVars>>

\* {hat_type.value: query_analysis.search_queries.get(hat_type, "") for hat_type in
\*  query_analysis.budget_allocation}
hat_search_queries_of(query_analysis) ==
    [i \in 1..Len(query_analysis.budget_allocation) |->
        <<HatValue(query_analysis.budget_allocation[i]),
          dict_get_hat(query_analysis.search_queries,
                       query_analysis.budget_allocation[i], <<>>)>>]

\* what the workflow's record of a wave keeps of one item: the branch it took, whether
\* its query was fresh, the provider calls made for it and the results of its context
wave_item_summary(item) ==
    LET hits == {k \in 1..Len(item.after.results) :
                    item.after.results[k].hat_type = item.hat_type}
    IN  [hat_type |-> item.hat_type, search_query |-> item.search_query,
         outcome |-> item.outcome, fresh |-> item.fresh,
         calls |-> item.after.calls - item.before.calls,
         has_context |-> hits # {},
         search_results |->
             IF hits = {} THEN <<>>
             ELSE item.after.results[CHOOSE k \in hits : TRUE].search_results]

\* _search_orchestrator_node; without an analysis state['query_analysis'] raises, and
\* an exception that leaves the wave is caught here
SearchOrchestratorNode ==
    /\ pc = "search_orchestrator"
    /\ IF ~state.query_analysis.set
       THEN /\ state' = [state EXCEPT
                           !.errors = Append(@, "Search orchestration failed")]
            /\ UNCHANGED <<cache, query_registry, search_stats, search_api_calls,
                           wave_outcomes, faults>>
       ELSE \E api \in ApiOutcomes(Len(state.query_analysis.budget_allocation)) :
              \E w \in {execute_initial_search_wave(Orchestrator,
                          hat_search_queries_of(state.query_analysis), api,
                          max_searches, now)} :
              LET search_contexts == w.results
              IN  /\ cache' = w.cache
                  /\ query_registry' = w.query_registry
                  /\ search_stats' = w.stats
                  /\ search_api_calls' = search_api_calls + w.calls
                  /\ wave_outcomes' =
                        [i \in 1..Len(w.outcomes) |-> wave_item_summary(w.outcomes[i])]
                  /\ faults' = faults + empty_searches(w.outcomes, api)
                  /\ faults' <= MaxFaults
                  /\ state' =
                        IF w.raised
                        THEN [state EXCEPT
                                !.errors = Append(@, "Search orchestration failed")]
                        ELSE [state EXCEPT
                        !.search_contexts = [set |-> TRUE, value |-> search_contexts],
                        !.processing_stats = dict_put(@, "search",
                           [total_searches |-> Len(search_contexts),
                            cache_hits |-> Cardinality(
                               {i \in 1..Len(search_contexts) :
                                   search_contexts[i].cache_hit})]),
                        !.phase_completed = Append(@, "search_orchestration")]
    /\ pc' = next_node("search_orchestrator")
    /\ pending' = dispatched(pc')
    /\ stream' = yielded(stream, "search_orchestrator")
    /\ UNCHANGED <<max_searches, agent_search_results, runs, raises, now, advances,
                   args, lastSet, lastGet, allocVars, dupVars, orchVars>>

\* _white_hat_node, _red_hat_node, _yellow_hat_node, _black_hat_node: the four nodes of
\* one superstep, in any order; the aggregator follows when all four have returned.
\* An exception that leaves process (it is raised after set_search_results, while the
\* prompt is built) is caught by the node
HatNode(h) ==
    /\ pc = "parallel"
    /\ h \in pending
    /\ \E llm_ok \in LlmOutcomes : \E raised \in StepRaises :
         LET search_context == search_context_of(state, HatValue(h))
             r == agent_process(agent_search_results[h], search_context, llm_ok)
         IN  /\ raised => llm_ok
             /\ agent_search_results' = [agent_search_results EXCEPT ![h] = r.search_results]
             /\ state' =
                   IF raised
                   THEN [state EXCEPT
                           !.responses[h] = ErrorResponse,
                           !.errors = Append(@, NodeFailed(h))]
                   ELSE [state EXCEPT
                   !.responses[h] = r.response,
                   !.processing_stats = dict_put(@, StatsKey(h),
                      [search_used |-> search_context.found])]
             /\ faults' = faults + (IF llm_ok THEN 0 ELSE 1)
             /\ raises' = raises - (IF raised THEN 1 ELSE 0)
    /\ pending' = pending \ {h}
    /\ pc' = IF superstep_complete(pending') THEN next_node("parallel") ELSE "parallel"
    /\ stream' = yielded(stream, StatsKey(h))
    /\ UNCHANGED <<max_searches, query_registry, search_stats, runs, search_api_calls,
                   wave_outcomes, allocVars, cacheVars, dupVars, orchVars>>

aggregator_returns_clearing_contexts(st, hat_responses, aggregated_context, raised) ==
    [st EXCEPT
       !.green_context =
          [set |-> TRUE, parallel_responses |-> hat_responses,
           search_insights |-> aggregated_context.search_insights],
       !.search_contexts = [set |-> TRUE, value |-> <<>>],
       !.processing_stats = dict_put(@, "aggregator", [present |-> TRUE]),
       !.phase_completed = Append(@, "aggregation")]

aggregator_returns_without_reducer(st, hat_responses, aggregated_context, raised) ==
    [st EXCEPT
       !.green_context =
          [set |-> TRUE, parallel_responses |-> hat_responses,
           search_insights |-> aggregated_context.search_insights],
       !.processing_stats = dict_put(@, "aggregator", [present |-> TRUE]),
       !.errors = IF raised THEN <<"Aggregation failed">> ELSE @,
       !.phase_completed = <<"aggregation">>]

\* the dict _aggregator_node returns, merged into the state: its except branch passes
\* the responses on without the insights
aggregator_returns(st, hat_responses, aggregated_context, raised) ==
    IF raised
    THEN [st EXCEPT
            !.green_context =
               [set |-> TRUE, parallel_responses |-> hat_responses,
                search_insights |-> {}],
            !.errors = Append(@, "Aggregation failed")]
    ELSE [st EXCEPT
            !.green_context =
               [set |-> TRUE,
                parallel_responses |-> aggregated_context.parallel_responses,
                search_insights |-> aggregated_context.search_insights],
            !.processing_stats = dict_put(@, "aggregator", [present |-> TRUE]),
            !.phase_completed = Append(@, "aggregation")]

\* _aggregator_node
AggregatorNode ==
    /\ pc = "aggregator"
    /\ \E raised \in StepRaises :
       LET hat_responses == [h \in ParallelHats |-> response_text(state, h)]
           aggregated_context ==
               aggregate_hat_contexts(hat_responses, search_contexts_or_empty(state))
       IN  /\ raises' = raises - (IF raised THEN 1 ELSE 0)
           /\ state' = aggregator_returns(state, hat_responses, aggregated_context,
                                           raised)
    /\ pc' = next_node("aggregator")
    /\ stream' = yielded(stream, "aggregator")
    /\ UNCHANGED <<max_searches, query_registry, search_stats, agent_search_results,
                   pending, runs, search_api_calls, wave_outcomes, faults,
                   allocVars, cacheVars, dupVars, orchVars>>

\* _green_hat_node; an exception that leaves the sequential search or process is
\* caught here
GreenHatNode ==
    /\ pc = "green_hat"
    /\ \E llm_ok \in LlmOutcomes : \E raised \in StepRaises :
       \E api_result \in ProviderResults :
         LET query_analysis == state.query_analysis
             budget_used == Len(search_contexts_or_empty(state))
             recommendation ==
                 dict_index_of_str(query_analysis.search_recommendations, HatValue("GREEN"))
             should_green_search ==
                 /\ query_analysis.set
                 /\ recommendation # 0
                 /\ budget_used < max_searches
             query_index ==
                 dict_index_of_str(query_analysis.search_queries, HatValue("GREEN"))
             search_query ==
                 IF query_index = 0 THEN <<>>
                 ELSE query_analysis.search_queries[query_index][2]
             s == execute_sequential_search(Orchestrator, HatValue("GREEN"),
                     search_query, budget_used, api_result, max_searches, now)
             searched == should_green_search /\ s.returned
             green_search_context ==
                 [found |-> searched,
                  search_results |-> IF searched THEN s.context.search_results ELSE <<>>]
             r == green_agent_process(agent_search_results["GREEN"], state.green_context,
                                      green_search_context, llm_ok)
             search_raised == should_green_search /\ s.raised
         IN  /\ raised => llm_ok /\ ~search_raised
             /\ cache' = IF should_green_search THEN s.cache ELSE cache
             /\ query_registry' =
                    IF should_green_search THEN s.query_registry ELSE query_registry
             /\ search_stats' = IF should_green_search THEN s.stats ELSE search_stats
             /\ search_api_calls' =
                    search_api_calls + (IF should_green_search THEN s.calls ELSE 0)
             /\ agent_search_results' =
                    IF search_raised THEN agent_search_results
                    ELSE [agent_search_results EXCEPT !["GREEN"] = r.search_results]
             /\ state' =
                   IF search_raised \/ raised
                   THEN [state EXCEPT
                           !.responses["GREEN"] = ErrorResponse,
                           !.errors = Append(@, NodeFailed("GREEN"))]
                   ELSE [state EXCEPT
                   !.responses["GREEN"] = r.response,
                   !.processing_stats = dict_put(@, "green_hat",
                      [search_used |-> searched]),
                   !.phase_completed = Append(@, "green_hat")]
             /\ faults' = faults + (IF llm_ok THEN 0 ELSE 1)
                          + (IF should_green_search /\ s.calls = 1
                                   /\ (api_result.raised \/ api_result.results = <<>>)
                             THEN 1 ELSE 0)
             /\ raises' = raises - (IF raised THEN 1 ELSE 0)
             /\ faults' <= MaxFaults
    /\ pc' = next_node("green_hat")
    /\ stream' = yielded(stream, "green_hat")
    /\ UNCHANGED <<max_searches, pending, runs, wave_outcomes, now, advances, args,
                   lastSet, lastGet, allocVars, dupVars, orchVars>>

\* _blue_hat_node; the graph ends after it, also after its except branch
BlueHatNode ==
    /\ pc = "blue_hat"
    /\ \E llm_ok \in LlmOutcomes : \E raised \in StepRaises :
         LET all_responses ==
                 [h \in ParallelHats \cup {"GREEN"} |-> response_text(state, h)]
             synthesis_context ==
                 build_synthesis_context(all_responses, search_contexts_or_empty(state))
             response == blue_agent_process(all_responses, synthesis_context, llm_ok)
         IN  /\ raised => llm_ok
             /\ faults' = faults + (IF llm_ok THEN 0 ELSE 1)
             /\ raises' = raises - (IF raised THEN 1 ELSE 0)
             /\ state' =
                   IF raised
                   THEN [state EXCEPT
                           !.responses["BLUE"] = ErrorResponse,
                           !.errors = Append(@, NodeFailed("BLUE"))]
                   ELSE [state EXCEPT
                   !.responses["BLUE"] = response,
                   !.processing_stats =
                      dict_put(dict_put(@, "blue_hat", [present |-> TRUE]), "overall",
                         [phases_completed |-> Append(state.phase_completed, "blue_hat"),
                          total_errors |-> Len(state.errors)]),
                   !.phase_completed = Append(@, "blue_hat")]
    /\ pc' = next_node("blue_hat")
    /\ stream' = yielded(stream, "blue_hat")
    /\ UNCHANGED <<max_searches, query_registry, search_stats, agent_search_results,
                   pending, runs, search_api_calls, wave_outcomes,
                   allocVars, cacheVars, dupVars, orchVars>>

\* time passes between two invocations: the clock is read by the search nodes only,
\* so it is advanced while the workflow is idle and another invocation can follow, and
\* once per run at most (a longer gap acts like one of ttl_seconds)
TimePasses(d) ==
    /\ pc = "idle"
    /\ runs < MaxRuns
    /\ advances < runs
    /\ advances < MaxAdvances
    /\ now' = now + d
    /\ advances' = advances + 1
    /\ UNCHANGED <<cache, args, lastSet, lastGet, allocVars, dupVars, wfVars, orchVars>>

Next ==
    \/ \E query \in UserQueries : Invoke(query)
    \/ QueryAnalyzerNode
    \/ SearchOrchestratorNode
    \/ \E h \in ParallelHats : HatNode(h)
    \/ AggregatorNode
    \/ GreenHatNode
    \/ BlueHatNode
    \/ \E d \in RunGaps : TimePasses(d)

Spec == WorkflowInit /\ [][Next]_vars

\* a step of the graph other than the search node: workflow.invoke runs the nodes of
\* a superstep and then those of the next one until END; every node returns, since
\* each call it makes returns or raises and what is raised is caught
RunStep ==
    \/ QueryAnalyzerNode
    \/ \E h \in ParallelHats : HatNode(h)
    \/ AggregatorNode
    \/ GreenHatNode
    \/ BlueHatNode

\* the step of the search node, told by what it does to pc: the node returns (its
\* loop runs over a finite dict and each provider call returns or raises)
SearchOrchestratorReturns ==
    /\ pc = "search_orchestrator"
    /\ pc' \in {"parallel", "aggregator", "green_hat", "blue_hat", "idle"}

\* the queries and the budgets of the runs whose termination is checked: whether a
\* run ends depends on neither, so one query (with a wave of four) and the two ends
\* of the range of budgets stand for all
LiveQueries == {TextStartupRisks}

LiveInit == WorkflowBuilt /\ max_searches \in {0, MaxBudget} /\ raises = MaxRaises

LiveNext ==
    \/ \E query \in LiveQueries : Invoke(query)
    \/ RunStep
    \/ SearchOrchestratorNode
    \/ \E d \in RunGaps : TimePasses(d)

\* the workflow under a runtime that keeps running the graph it has started, with
\* node bodies that raise
SpecLive ==
    LiveInit /\ [][LiveNext]_vars /\ WF_vars(RunStep) /\ WF_pc(SearchOrchestratorReturns)

\* workflow.stream(query): the same graph is started from the same initial state, and
\* the generator yields an event for every update the graph reports
Stream(query) ==
    /\ pc = "idle"
    /\ runs < MaxRuns
    /\ runs' = runs + 1
    /\ state' = InitialState(query)
    /\ pc' = "query_analyzer"
    /\ search_api_calls' = 0
    /\ wave_outcomes' = <<>>
    /\ stream' = [active |-> TRUE, events |-> <<>>]
    /\ UNCHANGED <<max_searches, query_registry, search_stats, agent_search_results,
                   pending, faults, raises, allocVars, cacheVars, dupVars, orchVars>>

StreamNext ==
    \/ \E query \in LiveQueries : Stream(query)
    \/ RunStep
    \/ SearchOrchestratorNode
    \/ \E d \in RunGaps : TimePasses(d)

\* the workflow consumed through stream, with node bodies that raise; the generator
\* is exhausted when the graph has run its last node
SpecStream == LiveInit /\ [][StreamNext]_vars

AnalysisNext ==
    \/ \E query \in AnalysisQueries : Invoke(query)
    \/ QueryAnalyzerNode

\* the query analyzer on its own: runs of the workflow that are followed up to the
\* return of _query_analyzer_node, on queries that cover the cases of the analysis
SpecAnalysis == WorkflowInit /\ [][AnalysisNext]_vars

-----------------------------------------------------------------------------
(* SpecOrch: a PhasedSearchOrchestrator object whose two search methods are called *)
(* directly, with any arguments, under a clock                                     *)

\* how many calls of the search methods a behaviour makes
MaxCalls == 2

\* the budgets max_searches of the orchestrator: none, less than a wave, a whole wave
OrchBudgets == {0, 1, 2}

\* the hats of a wave, in the order of the dict
WaveHatOrder == <<HatValue("WHITE"), HatValue("RED")>>

\* the hat_search_queries dicts of a wave, as <<hat, query>> pairs
WaveDicts ==
    UNION {{[i \in 1..n |-> <<WaveHatOrder[i], qs[i]>>] : qs \in [1..n -> OrchQueries]} :
             n \in 1..Len(WaveHatOrder)}

\* the hats execute_sequential_search is written for
SequentialHats == {HatValue("GREEN"), HatValue("BLUE")}

\* the orchestrator as a call finds or leaves it
orch_snapshot(c, registry, stats) ==
    [cache |-> c, query_registry |-> registry, stats |-> stats]

OrchInit ==
    /\ max_searches \in OrchBudgets
    /\ cache = <<>>
    /\ now = 0
    /\ advances = 0
    /\ query_registry = <<>>
    /\ search_stats = NewSearchStats
    /\ runs = 0
    /\ lastCall = NoCall
    /\ agent_search_results = <<>>
    /\ state = NoState
    /\ pc = "idle"
    /\ pending = {}
    /\ search_api_calls = 0
    /\ wave_outcomes = <<>>
    /\ faults = 0
    /\ raises = 0
    /\ stream = NoStream
    /\ args = <<>>
    /\ lastSet = <<>>
    /\ lastGet = NoGet
    /\ AllocIdle
    /\ DupIdle

\* orchestrator.execute_initial_search_wave(hat_search_queries); api[i] is what the
\* provider returns for the i-th item if it is asked
InitialSearchWave(hat_search_queries, api) ==
    /\ runs < MaxCalls
    /\ \E w \in {execute_initial_search_wave(Orchestrator, hat_search_queries, api,
                                              max_searches, now)} :
         /\ \A i \in 1..Len(w.outcomes) :
               w.outcomes[i].outcome # "searched" => api[i] = tavily_search("results")
         /\ cache' = w.cache
         /\ query_registry' = w.query_registry
         /\ search_stats' = w.stats
         /\ lastCall' = [method |-> "execute_initial_search_wave",
                         hat_search_queries |-> hat_search_queries,
                         before |-> orch_snapshot(cache, query_registry, search_stats),
                         after |-> orch_snapshot(w.cache, w.query_registry, w.stats),
                         items |-> w.outcomes,
                         results |-> w.results,
                         calls |-> w.calls]
         /\ search_api_calls' = search_api_calls + w.calls
    /\ runs' = runs + 1
    /\ UNCHANGED <<stream, max_searches, agent_search_results, state, pc, pending,
                   wave_outcomes, faults, raises, now, advances, args,
                   lastSet, lastGet, allocVars, dupVars>>

\* orchestrator.execute_sequential_search(hat_type, search_query, current_budget_used)
SequentialSearch(hat_type, search_query, current_budget_used, api_result) ==
    /\ runs < MaxCalls
    /\ \E r \in {execute_sequential_search(Orchestrator, hat_type, search_query,
                        current_budget_used, api_result, max_searches, now)} :
         /\ r.calls = 0 => api_result = tavily_search("results")
         /\ cache' = r.cache
         /\ query_registry' = r.query_registry
         /\ search_stats' = r.stats
         /\ lastCall' = [method |-> "execute_sequential_search",
                         hat_type |-> hat_type,
                         search_query |-> search_query,
                         current_budget_used |-> current_budget_used,
                         at |-> now,
                         before |-> orch_snapshot(cache, query_registry, search_stats),
                         after |-> orch_snapshot(r.cache, r.query_registry, r.stats),
                         returned |-> r.returned,
                         context |-> r.context,
                         calls |-> r.calls]
         /\ search_api_calls' = search_api_calls + r.calls
    /\ runs' = runs + 1
    /\ UNCHANGED <<stream, max_searches, agent_search_results, state, pc, pending,
                   wave_outcomes, faults, raises, now, advances, args,
                   lastSet, lastGet, allocVars, dupVars>>

\* time passes between two calls
OrchTimePasses(d) ==
    /\ runs < MaxCalls
    /\ advances < runs
    /\ advances < MaxAdvances
    /\ now' = now + d
    /\ advances' = advances + 1
    /\ UNCHANGED <<cache, args, lastSet, lastGet, allocVars, dupVars, wfVars, orchVars>>

OrchNext ==
    \/ \E hat_search_queries \in WaveDicts :
          \E api \in [1..Len(hat_search_queries) -> ProviderResults] :
             InitialSearchWave(hat_search_queries, api)
    \/ \E hat_type \in SequentialHats : \E search_query \in OrchQueries :
          \E current_budget_used \in {0, max_searches, max_searches + 1} :
             \E api_result \in ProviderResults :
                SequentialSearch(hat_type, search_query, current_budget_used, api_result)
    \/ \E d \in RunGaps : OrchTimePasses(d)

SpecOrch == OrchInit /\ [][OrchNext]_vars

-----------------------------------------------------------------------------
(* Claims about the search budget of a workflow run (Spec) *)

\* C1: within one workflow run (the initial search wave and the green hat's
\* sequential lookup) the number of calls made to the search provider never exceeds
\* the configured budget max_searches.
C1_ProviderCallsWithinBudget == search_api_calls <= max_searches

\* a run other than the first, on an orchestrator that already holds queries and
\* results, has ended (the green hat node included) with the whole budget spent on
\* provider calls
C1_Witness ==
    /\ pc = "idle"
    /\ runs > 1
    /\ max_searches > 0
    /\ search_api_calls = max_searches
    /\ state.responses["GREEN"].set
    /\ Len(query_registry) > max_searches

\* C2 as stated: a lookup answered from the cache or redirected by the duplicate
\* detector consumes no budget, so a participant of the wave whose query is fresh is
\* passed over only when max_searches provider calls have been made in the run.
C2_FreshQueryLookedUpWithinBudget ==
    \A i \in 1..Len(wave_outcomes) :
        (wave_outcomes[i].outcome = "skipped" /\ wave_outcomes[i].fresh)
            => search_api_calls >= max_searches

\* C3 as stated: the list returned by the budget allocator has at most max_searches
\* participants, whatever budget the workflow was built with.
C3_AllocationWithinBudget ==
    state.query_analysis.set
        => Len(state.query_analysis.budget_allocation) <= max_searches

-----------------------------------------------------------------------------
(* Claims about the budget allocator (SpecAlloc) *)

Keys(recs) == {e[1] : e \in Range(recs)}

PriorityIn(recs, h) == (CHOOSE e \in Range(recs) : e[1] = h)[2]

IndexIn(recs, h) == CHOOSE i \in 1..Len(recs) : recs[i][1] = h

Eligible == {"CRITICAL", "HIGH", "MEDIUM"}

Returned == allocated.done /\ ~allocated.raised

InTierAndMapOrder(v) ==
    \A i, j \in 1..Len(v) :
        i < j =>
            LET ri == priority_order(PriorityIn(search_recommendations, v[i]))
                rj == priority_order(PriorityIn(search_recommendations, v[j]))
            IN  /\ ri <= rj
                /\ ri = rj => IndexIn(search_recommendations, v[i])
                                  < IndexIn(search_recommendations, v[j])

TruncatedList == truncate_candidates(sort_by_priority(candidates_of(search_recommendations)))

\* truncation dropped WHITE: WHITE is a candidate and is not among the first four
WhiteDropped ==
    /\ "WHITE" \in Keys(candidates_of(search_recommendations))
    /\ "WHITE" \notin Range(TruncatedList)

\* C7: when truncation dropped WHITE, the allocation is WHITE followed by the truncated
\* list without its last entry, and is as long as the truncated list.
C7_EvictLastInsertFront ==
    (allocated.done /\ WhiteDropped) =>
        /\ Returned
        /\ allocated.value = <<"WHITE">> \o Front(TruncatedList)
        /\ Len(allocated.value) = Len(TruncatedList)

\* C7 witness: an allocation made after truncation dropped WHITE
C7_Witness == Returned /\ WhiteDropped /\ Len(allocated.value) = AllocationLimit

-----------------------------------------------------------------------------
(* Claims about SearchCache (SpecCache) *)

\* the key the cache files the i-th argument pair under
ArgKey(i) == generate_cache_key(args[i].query, args[i].hat)

\* C8: a get(p, q) that follows set(p, q, R), with no other set in between, returns R
\* while less than the TTL has passed since the set; otherwise it returns nothing and
\* the cache holds no entry for (p, q) after it.
C8_SetGetRoundTrip ==
    (lastGet.valid /\ lastSet.newest = lastGet.arg) =>
        LET call == lastSet.calls[lastGet.arg]
        IN  IF now - call.at < ttl_seconds
            THEN lastGet.found /\ lastGet.data = call.results
            ELSE ~lastGet.found /\ ArgKey(lastGet.arg) \notin DOMAIN cache

\* C8 witness: a get of the pair set last, made once the TTL has elapsed, that returned
\* nothing; and the clock has passed the TTL.
C8_Witness ==
    /\ lastGet.valid
    /\ lastSet.newest = lastGet.arg
    /\ now - lastSet.calls[lastGet.arg].at >= ttl_seconds
    /\ ~lastGet.found

\* strip-and-lower as the claim words it: no leading or trailing whitespace is left
RECURSIVE DropLeadingSpace(_)
DropLeadingSpace(s) ==
    IF s # <<>> /\ IsSpace(Head(s)) THEN DropLeadingSpace(Tail(s)) ELSE s

TrimLower(s) ==
    LET t == Reverse(DropLeadingSpace(Reverse(DropLeadingSpace(s))))
    IN  [i \in 1..Len(t) |-> LowerChar(t[i])]

\* the set calls whose participant is that of pair g and whose query equals that of
\* pair g after trimming and lower-casing
MatchingSets(g) ==
    {j \in 1..2 : /\ lastSet.calls[j].valid
                  /\ args[j].hat = args[g].hat
                  /\ TrimLower(args[j].query) = TrimLower(args[g].query)}

\* C9: get(p2, q2) is a hit exactly when a set(p, q, R) was made with p = p2 and q equal
\* to q2 after trimming and lower-casing, the last such set being younger than the TTL;
\* the hit returns the results of that last set.
C9_KeyedByHatAndNormalizedQuery ==
    lastGet.valid =>
        LET m == MatchingSets(lastGet.arg)
            last == IF lastSet.newest \in m THEN lastSet.newest ELSE CHOOSE j \in m : TRUE
        IN  IF m # {} /\ now - lastSet.calls[last].at < ttl_seconds
            THEN lastGet.found /\ lastGet.data = lastSet.calls[last].results
            ELSE ~lastGet.found

\* C9 witness: a hit for a pair that was never set itself, through a set of the same
\* participant with a query that differs in case or surrounding whitespace.
C9_Witness ==
    /\ lastGet.valid
    /\ lastGet.found
    /\ ~lastSet.calls[lastGet.arg].valid
    /\ args[1].query # args[2].query

-----------------------------------------------------------------------------
(* Claims about DuplicateDetector.is_duplicate (SpecDup) *)

\* C10: the duplicate flag of is_duplicate(a, [(b, h)]) equals that of
\* is_duplicate(b, [(a, h)]).
C10_DuplicateSymmetric == dupOut.done => (dupOut.ab = dupOut.ba)

\* C10 witness: two queries with different word sets that are flagged duplicates
C10_Witness ==
    /\ dupOut.done
    /\ dupOut.ab
    /\ str_split_set(str_lower(dupArgs.a)) # str_split_set(str_lower(dupArgs.b))

-----------------------------------------------------------------------------
(* Claims about the duplicate registry (SpecRegistry) *)

\* whether a registered query meets the threshold against the new query
MeetsThreshold(new_query, existing_query) ==
    similarity_meets_threshold(query_words(new_query), query_words(existing_query))

\* the Jaccard similarity of a to c is strictly greater than that of a to b
MoreSimilar(a, c, b) ==
    LET A == query_words(a)
        B == query_words(b)
        C == query_words(c)
    IN  Cardinality(A \cap C) * Cardinality(A \cup B)
            > Cardinality(A \cap B) * Cardinality(A \cup C)

\* is_duplicate was just called on "startup funding dangers" with "startup funding
\* risks" as the one registered query
DangersAfterRisks ==
    /\ lastCall.method = "is_duplicate"
    /\ lastCall.new_query = TextStartupFundingDangers
    /\ Len(lastCall.existing_queries) = 1
    /\ lastCall.existing_queries[1][1] = TextStartupFundingRisks

\* C11 as stated: once "startup funding risks" is registered, is_duplicate on "startup
\* funding dangers" returns true with the first query as the match
C11_DangersDuplicateOfRisks ==
    DangersAfterRisks =>
        /\ lastCall.result.dup
        /\ lastCall.result.matched = TextStartupFundingRisks

\* C11 amended: the two queries share two of their four distinct words (Jaccard 0.5,
\* below 0.8), so is_duplicate on the second returns false and no matched query
C11_DangersNotDuplicateOfRisks ==
    DangersAfterRisks =>
        /\ ~lastCall.result.dup
        /\ lastCall.result.matched = <<>>

C11_Witness ==
    /\ DangersAfterRisks
    /\ ~lastCall.result.dup

\* C12: is_duplicate returns the first registered query, in registration order, whose
\* similarity meets the threshold (and none exactly when no registered query meets
\* it), also when a later registered query is more similar
C12_FirstMatchInRegistrationOrder ==
    lastCall.method = "is_duplicate" =>
        LET reg == lastCall.existing_queries
            hits == {i \in 1..Len(reg) : MeetsThreshold(lastCall.new_query, reg[i][1])}
        IN  /\ lastCall.result.dup <=> hits # {}
            /\ hits # {} =>
                  \E i \in hits :
                     /\ \A j \in hits : i <= j
                     /\ lastCall.result.matched = reg[i][1]
            /\ hits = {} => lastCall.result.matched = <<>>

C12_Witness ==
    /\ lastCall.method = "is_duplicate"
    /\ lastCall.result.dup
    /\ Len(lastCall.existing_queries) = 2
    /\ lastCall.result.matched = lastCall.existing_queries[1][1]
    /\ lastCall.existing_queries[2][1] # lastCall.existing_queries[1][1]
    /\ MoreSimilar(lastCall.new_query, lastCall.existing_queries[2][1],
                   lastCall.existing_queries[1][1])

-----------------------------------------------------------------------------
(* Claims about the resolution of one lookup (SpecOrch) *)

\* the context a wave has stored for a hat, and whether it has stored one
ContextOf(results, hat_type) ==
    LET hits == {i \in 1..Len(results) : results[i].hat_type = hat_type}
    IN  IF hits = {}
        THEN [present |-> FALSE, context |-> <<>>]
        ELSE [present |-> TRUE, context |-> results[CHOOSE i \in hits : TRUE]]

\* one item of the wave just executed as a lookup: the participant and its query,
\* the orchestrator before and after, whether the budget test let it through, the
\* context it got, the provider calls made for it and the budget it consumed
LookupOfItem(item) ==
    [hat_type |-> item.hat_type, search_query |-> item.search_query, at |-> item.at,
     before |-> orch_snapshot(item.before.cache, item.before.query_registry,
                              item.before.stats),
     after |-> orch_snapshot(item.after.cache, item.after.query_registry,
                             item.after.stats),
     budget_left |-> item.outcome # "skipped",
     allowed |-> TRUE,
     has_context |-> ContextOf(item.after.results, item.hat_type).present,
     context |-> ContextOf(item.after.results, item.hat_type).context,
     calls |-> item.after.calls - item.before.calls,
     consumed |-> item.after.search_count - item.before.search_count]

\* the sequential search just executed as a lookup
LookupOfCall ==
    [hat_type |-> lastCall.hat_type, search_query |-> lastCall.search_query,
     at |-> lastCall.at, before |-> lastCall.before, after |-> lastCall.after,
     budget_left |-> lastCall.current_budget_used < max_searches,
     allowed |-> lastCall.hat_type # HatValue("BLUE"),
     has_context |-> lastCall.returned,
     context |-> lastCall.context,
     calls |-> lastCall.calls,
     consumed |-> lastCall.after.stats.total_searches
                    - lastCall.before.stats.total_searches]

\* the lookups of the call just made
Lookups ==
    IF lastCall.method = "execute_initial_search_wave"
    THEN {LookupOfItem(lastCall.items[i]) : i \in 1..Len(lastCall.items)}
    ELSE IF lastCall.method = "execute_sequential_search"
    THEN {LookupOfCall}
    ELSE {}

\* the lookups that got past the budget test and the fixed policy (the synthesis
\* participant never searches)
ResolvedLookups == {L \in Lookups : L.budget_left /\ L.allowed}

\* the registered queries the query of a lookup is a near-duplicate of, by position
MatchesOf(L) ==
    {j \in 1..Len(L.before.query_registry) :
        MeetsThreshold(L.search_query, L.before.query_registry[j][1])}

NearDuplicate(L) == MatchesOf(L) # {}

\* the matched prior query: the first match in registration order
MatchedQuery(L) ==
    L.before.query_registry[CHOOSE j \in MatchesOf(L) : \A k \in MatchesOf(L) : j <= k][1]

\* an entry of the cache that has not expired
Unexpired(c, cache_key, t) ==
    /\ cache_key \in DOMAIN c
    /\ t - c[cache_key].timestamp < ttl_seconds

\* the unexpired cache entries of the matched prior query, under the participants
\* that registered it
MatchedEntries(L) ==
    {generate_cache_key(MatchedQuery(L), L.before.query_registry[j][2]) :
        j \in {k \in MatchesOf(L) :
                 /\ L.before.query_registry[k][1] = MatchedQuery(L)
                 /\ Unexpired(L.before.cache,
                       generate_cache_key(MatchedQuery(L), L.before.query_registry[k][2]),
                       L.at)}}

\* the cache key of the lookup itself
OwnKey(L) == generate_cache_key(L.search_query, L.hat_type)

\* C13 as stated: a lookup whose query is a near-duplicate of a registered query the
\* results of which are still cached returns a context with cache_hit = true that
\* carries those cached results and names the matched query, and the provider is not
\* called
C13_DuplicateReusesMatchedResults ==
    \A L \in ResolvedLookups :
        (NearDuplicate(L) /\ MatchedEntries(L) # {}) =>
            /\ L.has_context
            /\ L.context.cache_hit
            /\ \E cache_key \in MatchedEntries(L) :
                  L.context.search_results = L.before.cache[cache_key].data
            /\ L.context.metadata.has_duplicate_of
            /\ L.context.metadata.duplicate_of = MatchedQuery(L)
            /\ L.calls = 0

\* C14: a lookup whose query is a near-duplicate, made when no unexpired cache entry of
\* the matched query is left, gets no context, adds one to duplicates_prevented and
\* makes no provider call
C14_DuplicateWithoutCacheEntry ==
    \A L \in ResolvedLookups :
        (NearDuplicate(L) /\ MatchedEntries(L) = {}) =>
            /\ ~L.has_context
            /\ L.after.stats.duplicates_prevented
                  = L.before.stats.duplicates_prevented + 1
            /\ L.calls = 0

\* C14 witness: the entry of the matched query is in the cache but has expired
C14_Witness ==
    \E L \in ResolvedLookups :
        /\ NearDuplicate(L)
        /\ MatchedEntries(L) = {}
        /\ generate_cache_key(MatchedQuery(L), L.before.query_registry[1][2])
              \in DOMAIN L.before.cache
        /\ ~L.has_context
        /\ L.after.stats.duplicates_prevented = L.before.stats.duplicates_prevented + 1

\* the wave just executed had no budget at all
WaveWithoutBudget ==
    lastCall.method = "execute_initial_search_wave" /\ max_searches <= 0

\* the sequential search just executed found the budget used up
SequentialWithoutBudget ==
    /\ lastCall.method = "execute_sequential_search"
    /\ lastCall.current_budget_used >= max_searches

\* a lookup stopped by the budget test returns nothing and calls no provider, and a
\* call none of whose lookups had budget leaves the cache and the registry as they were
BudgetExhaustedFrame ==
    /\ \A L \in Lookups : ~L.budget_left =>
          /\ ~L.has_context
          /\ L.calls = 0
          /\ L.after = L.before
    /\ (WaveWithoutBudget \/ SequentialWithoutBudget) =>
          /\ lastCall.calls = 0
          /\ lastCall.after.cache = lastCall.before.cache
          /\ lastCall.after.query_registry = lastCall.before.query_registry
    /\ WaveWithoutBudget => lastCall.results = <<>>
    /\ SequentialWithoutBudget => ~lastCall.returned

\* C15 as stated: with no budget left, resolving a lookup returns nothing, calls no
\* provider and leaves the cache, the duplicate registry and the statistics unchanged
C15_BudgetExhaustedTouchesNothing ==
    /\ BudgetExhaustedFrame
    /\ (WaveWithoutBudget \/ SequentialWithoutBudget) =>
          lastCall.after.stats = lastCall.before.stats

\* C15 amended: ... and the statistics unchanged, except that an initial wave still
\* counts itself once in total_queries
C15_BudgetExhaustedTouchesOnlyQueryCount ==
    /\ BudgetExhaustedFrame
    /\ SequentialWithoutBudget => lastCall.after.stats = lastCall.before.stats
    /\ WaveWithoutBudget =>
          lastCall.after.stats =
              [lastCall.before.stats EXCEPT !.total_queries = @ + 1]

\* C15 witness: a sequential search of a query that is neither registered nor cached,
\* refused by an orchestrator that has searched before
C15_Witness ==
    /\ SequentialWithoutBudget
    /\ lastCall.hat_type # HatValue("BLUE")
    /\ max_searches > 0
    /\ lastCall.before.cache # <<>>
    /\ ~NearDuplicate(LookupOfCall)
    /\ ~Unexpired(lastCall.before.cache, OwnKey(LookupOfCall), lastCall.at)
    /\ ~lastCall.returned

\* C16: a lookup whose query is no near-duplicate and for which an unexpired cache
\* entry exists under (participant, query) returns a context with cache_hit = true
\* that holds the cached results, calls no provider and registers nothing
C16_CacheHitOnCurrentQuery ==
    \A L \in ResolvedLookups :
        (~NearDuplicate(L) /\ Unexpired(L.before.cache, OwnKey(L), L.at)) =>
            /\ L.has_context
            /\ L.context.cache_hit
            /\ L.context.search_results = L.before.cache[OwnKey(L)].data
            /\ L.calls = 0
            /\ L.after.query_registry = L.before.query_registry

C16_Witness ==
    \E L \in ResolvedLookups :
        /\ ~NearDuplicate(L)
        /\ Unexpired(L.before.cache, OwnKey(L), L.at)
        /\ L.has_context
        /\ L.context.cache_hit
        /\ L.before.query_registry # <<>>

\* C17: a lookup whose query is no near-duplicate and is not cached calls the provider
\* once; after it the cache holds the returned results under (participant, query), the
\* query is the last entry of the registry, and one unit of budget is consumed
C17_FullMissSearchesOnce ==
    \A L \in ResolvedLookups :
        (~NearDuplicate(L) /\ ~Unexpired(L.before.cache, OwnKey(L), L.at)) =>
            /\ L.calls = 1
            /\ L.has_context
            /\ ~L.context.cache_hit
            /\ Unexpired(L.after.cache, OwnKey(L), L.at)
            /\ L.after.cache[OwnKey(L)].data = L.context.search_results
            /\ L.after.query_registry =
                  Append(L.before.query_registry, <<L.search_query, L.hat_type>>)
            /\ L.consumed = 1

C17_Witness ==
    \E L \in ResolvedLookups :
        /\ ~NearDuplicate(L)
        /\ ~Unexpired(L.before.cache, OwnKey(L), L.at)
        /\ L.calls = 1
        /\ L.before.query_registry # <<>>
        /\ OwnKey(L) \in DOMAIN L.before.cache
        /\ L.context.search_results # <<>>

(***************************************************************************)
(* Claims about failures and the order of the phases (Spec)                *)
(***************************************************************************)

\* the items of the wave of the current run for which the request of the provider
\* failed: the wave was left by the exception, or the provider call came back empty
FailedItems ==
    {i \in 1..Len(wave_outcomes) :
        \/ wave_outcomes[i].outcome = "raised"
        \/ /\ wave_outcomes[i].outcome = "searched"
           /\ wave_outcomes[i].search_results = <<>>}

\* the items of the wave that were answered by the provider or from the cache
AnsweredItems ==
    {j \in 1..Len(wave_outcomes) : wave_outcomes[j].outcome \in {"searched", "cache_hit"}}

\* whether the list of errors of the run holds the message
ErrorReported(message) == \E k \in 1..Len(state.errors) : state.errors[k] = message

\* C18: a failure of the provider call for one participant of the wave is contained:
\* no exception leaves the wave and the search node reports no error, the provider is
\* called once for the participant and not again, every other participant of the wave
\* that was answered has its lookup context in the state, and at the end of the run
\* the synthesis has produced a response
C18_ProviderFailureContained ==
    \A i \in FailedItems :
        /\ wave_outcomes[i].outcome = "searched"
        /\ ~ErrorReported("Search orchestration failed")
        /\ ~ErrorReported("Green hat failed")
        /\ wave_outcomes[i].calls = 1
        /\ search_api_calls >=
              Cardinality({j \in AnsweredItems : wave_outcomes[j].outcome = "searched"})
        /\ pc # "idle" =>
              search_api_calls =
                Cardinality({j \in AnsweredItems : wave_outcomes[j].outcome = "searched"})
        /\ state.search_contexts.set
        /\ \A j \in AnsweredItems :
              /\ ContextOf(state.search_contexts.value, wave_outcomes[j].hat_type).present
              /\ ContextOf(state.search_contexts.value,
                           wave_outcomes[j].hat_type).context.search_query
                    = wave_outcomes[j].search_query
        /\ pc = "idle" => state.responses["BLUE"].set

C18_Witness ==
    /\ pc = "idle"
    /\ state.responses["BLUE"].set
    /\ \E i \in FailedItems : \E j \in AnsweredItems :
          /\ j > i
          /\ wave_outcomes[j].outcome = "searched"
          /\ ContextOf(state.search_contexts.value,
                       wave_outcomes[j].hat_type).context.search_results # <<>>

\* the place of a step in the fixed order: analysis, initial search, the parallel
\* participants, aggregation, the creative participant, synthesis
PhaseRank(node) ==
    CASE node = "query_analyzer" -> 1
      [] node = "search_orchestrator" -> 2
      [] node = "parallel" -> 3
      [] node = "aggregator" -> 4
      [] node = "green_hat" -> 5
      [] node = "blue_hat" -> 6
      [] node = "idle" -> 7

\* C19: a run starts with the analysis; every step of a node ends the node and starts
\* the one that follows it in the fixed order (the end follows the synthesis), so no
\* node runs twice and none runs after a later one has started; the parallel phase
\* starts with its four participants waiting, each of its steps runs one waiting
\* participant, and it ends with the last of them
C19_PhasesInFixedOrder ==
    [][/\ pc' # pc =>
            \/ pc = "idle" /\ pc' = "query_analyzer"
            \/ pc # "idle" /\ PhaseRank(pc') = PhaseRank(pc) + 1
       /\ (pc' = pc /\ pc # "idle") =>
            /\ pc = "parallel"
            /\ pending' \subseteq pending
            /\ Cardinality(pending') = Cardinality(pending) - 1
            /\ pending' # {}
       /\ (pc = "search_orchestrator" /\ pc' # pc) => pending' = ParallelHats
       /\ (pc = "parallel" /\ pc' # pc) => Cardinality(pending) = 1 /\ pending' = {}
       /\ (pc' = pc /\ pc = "idle") => state' = state
      ]_vars

C19_Witness ==
    /\ pc = "idle"
    /\ runs > 1
    /\ state.phase_completed =
          <<"query_analysis", "search_orchestration", "aggregation", "green_hat",
            "blue_hat">>
    /\ \A h \in ParallelHats \cup {"GREEN", "BLUE"} : state.responses[h].set

\* C20: the aggregator starts only when each of the four parallel participants has
\* returned, with an answer or with the error text of its own failure, and what the
\* aggregator has read of a participant is the response the participant has written
C20_AggregationAfterAllParallelHats ==
    /\ pc = "aggregator" =>
          /\ pending = {}
          /\ \A h \in ParallelHats : state.responses[h].set
    /\ state.green_context.set =>
          \A h \in ParallelHats :
              /\ state.responses[h].set
              /\ state.green_context.parallel_responses[h] = state.responses[h].text
              /\ state.green_context.parallel_responses[h] # ""

C20_Witness ==
    /\ state.green_context.set
    /\ \E h \in ParallelHats : state.green_context.parallel_responses[h] = "Error: llm"
    /\ \E h \in ParallelHats : state.green_context.parallel_responses[h] = "answer"

(***************************************************************************)
(* Claims about the frame of the steps and about failing steps (Spec)      *)
(***************************************************************************)

\* the initial search wave of the run is over: the search node has stored its
\* contexts, or has reported that it failed
WaveFinished ==
    state.search_contexts.set \/ ErrorReported("Search orchestration failed")

\* C21: while the parallel participants run, the initial search wave of the run has
\* finished, and no step of a parallel participant changes the count of provider
\* calls, the record of the wave, the cache, the duplicate registry or the search
\* statistics
C21_QuotaDecidedBeforeDispatch ==
    [][pc = "parallel" =>
          /\ WaveFinished
          /\ UNCHANGED <<search_api_calls, wave_outcomes, cache, query_registry,
                         search_stats, max_searches>>
      ]_vars

C21_Witness ==
    /\ pc = "parallel"
    /\ pending # ParallelHats
    /\ pending # {}
    /\ search_api_calls > 0
    /\ search_api_calls < Len(wave_outcomes)
    /\ cache # <<>>

\* the synthesis step has run in the current run: it has completed its phase, or its
\* failure is reported
SynthesisRan ==
    \/ \E k \in 1..Len(state.phase_completed) : state.phase_completed[k] = "blue_hat"
    \/ ErrorReported(NodeFailed("BLUE"))

\* C22: a run that has been started reaches the end, and at the end of every run the
\* synthesis step has run and has written a response, whatever failed before it
C22_EveryRunEndsAfterSynthesis ==
    /\ [](pc = "idle" /\ runs > 0 => SynthesisRan /\ state.responses["BLUE"].set)
    /\ \A n \in 1..MaxRuns :
          (runs = n /\ pc = "query_analyzer") ~> (runs = n /\ pc = "idle")

C22_Witness ==
    /\ pc = "idle"
    /\ runs > 1
    /\ SynthesisRan
    /\ Len(state.errors) > 1
    /\ ~state.search_contexts.set
    /\ state.responses["BLUE"].text = "answer"

\* the response of the participant is the placeholder of a node that failed
MarkedPlaceholder(h) ==
    state.responses[h].set /\ state.responses[h].text = "Error: Unable to process"

\* how often the message is in the list of errors of the run
TimesReported(message) ==
    Cardinality({k \in 1..Len(state.errors) : state.errors[k] = message})

\* every phase after the analysis and the search has run in the run that has ended
LaterPhasesRan ==
    /\ \A g \in HatType : state.responses[g].set
    /\ state.green_context.set
    /\ SynthesisRan

\* C23: a participant step that raised (its node reports the failure) has appended
\* one error string to the list of errors and has set the response of its participant
\* to the marked placeholder, which is written in no other case; and the phases
\* after it have run when the run ends
C23_RaisingStepIsContained ==
    \A h \in HatType :
        /\ ErrorReported(NodeFailed(h)) =>
              /\ TimesReported(NodeFailed(h)) = 1
              /\ MarkedPlaceholder(h)
              /\ pc = "idle" => LaterPhasesRan
        /\ MarkedPlaceholder(h) => ErrorReported(NodeFailed(h))

C23_Witness ==
    /\ pc = "idle"
    /\ runs > 1
    /\ \E h \in ParallelHats : ErrorReported(NodeFailed(h))
    /\ state.search_contexts.set
    /\ state.responses["GREEN"].text = "answer"
    /\ state.responses["BLUE"].text = "answer"

\* the response an agent returns when its call of the language model raises
LlmFailed(h) == state.responses[h].set /\ state.responses[h].text = "Error: llm"

\* C24 as stated: at the end of a run in which the text-generation call of a
\* participant failed, the list of errors holds an entry for that participant and its
\* response is a placeholder
C24_LlmFailureRecorded ==
    pc = "idle" =>
        \A h \in HatType : LlmFailed(h) => ErrorReported(NodeFailed(h))

\* what processing_stats tells about the search use of the participants that have
\* run: none of them was handed a lookup context
NoSearchUsed ==
    \A h \in HatType \ {"BLUE"} :
        StatsKey(h) \in DOMAIN state.processing_stats =>
            ~state.processing_stats[StatsKey(h)].search_used

\* C25: in a run whose query analysis failed the error is reported and nothing else
\* of the analysis is stored; no provider call is made in the run, no participant
\* finds a lookup context in the state, and when the run ends every participant and
\* the synthesis have written a response
C25_FailedAnalysisMeansNoSearch ==
    ErrorReported("Query analysis failed") =>
        /\ ~state.query_analysis.set
        /\ search_api_calls = 0
        /\ wave_outcomes = <<>>
        /\ \A h \in HatType : ~search_context_of(state, HatValue(h)).found
        /\ NoSearchUsed
        /\ pc = "idle" => LaterPhasesRan

C25_Witness ==
    /\ pc = "idle"
    /\ runs > 1
    /\ ErrorReported("Query analysis failed")
    /\ cache # <<>>
    /\ \A h \in HatType : state.responses[h].text = "answer"

\* the conditions under which the green participant's lookup is due in the sequential
\* phase: the analysis gave green a tier other than NEVER and the lookups stored by
\* the wave leave budget
GreenLookupDue ==
    /\ state.query_analysis.set
    /\ "GREEN" \in Keys(state.query_analysis.search_recommendations)
    /\ PriorityIn(state.query_analysis.search_recommendations, "GREEN") # "NEVER"
    /\ Len(search_contexts_or_empty(state)) < max_searches

\* a sequential lookup that is attempted with budget left counts a duplicate, a cache
\* hit or a search, or calls the provider
LookupAttempted ==
    search_stats' # search_stats \/ search_api_calls' # search_api_calls

\* C26 as stated: the step of the green participant attempts its lookup exactly when
\* the budget is not exhausted and the tier of green is not NEVER
C26_GreenLookupWhenDue ==
    [][pc = "green_hat" => (GreenLookupDue <=> LookupAttempted)]_vars

\* the last call was a sequential lookup requested for the blue participant
BlueLookupRequested ==
    /\ lastCall.method = "execute_sequential_search"
    /\ lastCall.hat_type = HatValue("BLUE")

C28_AggregationLeavesSearchAlone ==
    [][pc = "aggregator" =>
          /\ search_api_calls' = search_api_calls
          /\ cache' = cache
          /\ query_registry' = query_registry
          /\ search_stats' = search_stats
          /\ state'.search_contexts = state.search_contexts]_vars

\* the aggregation has run on contexts that hold results, with a filled cache and
\* registry
C28_Witness ==
    /\ pc = "green_hat"
    /\ state.green_context.set
    /\ state.green_context.search_insights # {}
    /\ state.search_contexts.set
    /\ state.search_contexts.value # <<>>
    /\ cache # <<>>
    /\ query_registry # <<>>
    /\ search_api_calls > 0

\* the fields of WorkflowState that are merged by a reducer
SharedRecords == {"processing_stats", "errors", "phase_completed"}

\* the fields a step writes for its phase, and the participants whose response it writes
DesignatedFields(node) ==
    CASE node = "query_analyzer" -> {"query_analysis"}
      [] node = "search_orchestrator" -> {"search_contexts"}
      [] node = "parallel" -> {"responses"}
      [] node = "aggregator" -> {"green_context"}
      [] node = "green_hat" -> {"responses"}
      [] node = "blue_hat" -> {"responses"}
      [] OTHER -> {}

DesignatedResponses(node) ==
    CASE node = "parallel" -> ParallelHats
      [] node = "green_hat" -> {"GREEN"}
      [] node = "blue_hat" -> {"BLUE"}
      [] OTHER -> {}

IsPrefixOf(s, t) == Len(s) <= Len(t) /\ SubSeq(t, 1, Len(s)) = s

\* C29: a step of a run changes, besides the shared statistics, errors and completed
\* phases, only the fields of its own phase (a participant step only responses of its
\* own phase); a field that has been set is changed by no later step of the run; and
\* the lists of errors and of completed phases only grow
C29_StepsWriteOwnFieldsOnce ==
    [][pc # "idle" =>
          /\ {f \in DOMAIN state : state'[f] # state[f]}
                \subseteq DesignatedFields(pc) \cup SharedRecords
          /\ {h \in HatType : state'.responses[h] # state.responses[h]}
                \subseteq DesignatedResponses(pc)
          /\ state.query_analysis.set => state'.query_analysis = state.query_analysis
          /\ state.search_contexts.set => state'.search_contexts = state.search_contexts
          /\ state.green_context.set => state'.green_context = state.green_context
          /\ \A h \in HatType :
                state.responses[h].set => state'.responses[h] = state.responses[h]
          /\ IsPrefixOf(state.errors, state'.errors)
          /\ IsPrefixOf(state.phase_completed, state'.phase_completed)]_vars

\* the end of a run in which every field was set and both lists have grown
C29_Witness ==
    /\ pc = "idle"
    /\ runs > 1
    /\ state.query_analysis.set
    /\ state.search_contexts.set
    /\ state.green_context.set
    /\ \A h \in HatType : state.responses[h].set
    /\ Len(state.errors) > 0
    /\ Len(state.phase_completed) > 3

\* the participant of the parallel phase h has been processed by its agent in this run
ProcessedByAgent(h) ==
    state.responses[h].set /\ state.responses[h].text \in {"answer", "Error: llm"}

\* C30 as stated: the lookup results in the prompt of a participant of the parallel
\* phase are those of the context this run stored for it, and none when the run
\* stored no context for it, also in a later run of the same workflow
C30_PromptHoldsOwnContextOnly ==
    \A h \in ParallelHats :
        ProcessedByAgent(h) =>
            state.responses[h].prompt.search_results
               = search_context_of(state, HatValue(h)).search_results

-----------------------------------------------------------------------------
(* Claims about the result of a run and about the statistics of a session *)

\* C32: when a run has ended, the state holds an output for each of the six
\* participants, the answer of its agent or a placeholder, whichever steps failed
C32_EveryParticipantHasOutput ==
    pc = "idle" /\ runs > 0 =>
        \A h \in HatType :
            /\ state.responses[h].set
            /\ state.responses[h].text \in {"answer", "Error: llm", "Error: Unable to process"}

\* the end of a run in which the body of a step raised, the model call of another
\* participant failed and a third one answered
C32_Witness ==
    /\ pc = "idle"
    /\ runs > 0
    /\ \E h \in HatType : MarkedPlaceholder(h)
    /\ \E h \in HatType : LlmFailed(h)
    /\ \E h \in HatType : state.responses[h].text = "answer"

\* C33 as stated: the statistic total_searches of an orchestrator equals the number of
\* calls made to the provider since it was built; lookups answered by the cache and
\* prevented duplicates add nothing to it
C33_TotalSearchesCountsProviderCalls ==
    search_stats.total_searches = search_api_calls

\* C34: the lookups of an orchestrator, which never clears its registry, leave the
\* registered queries in place and in order and append one entry for every call made
\* to the provider and none without one, so that the registry is as long as the
\* number of provider calls made
C34_RegistryGrowsWithProviderCalls ==
    [][/\ IsPrefixOf(query_registry, query_registry')
       /\ Len(query_registry') - Len(query_registry) = search_api_calls' - search_api_calls
       /\ Len(query_registry') = search_api_calls']_vars

\* several lookups were issued and registered, and more queries were considered than
\* looked up: a lookup of the sequential phase was registered after a duplicate had
\* been prevented
C34_Witness ==
    /\ Len(query_registry) > 1
    /\ search_stats.duplicates_prevented > 0
    /\ lastCall.method = "execute_sequential_search"
    /\ lastCall.calls = 1

\* the nodes of the graph, by the names the events carry
GraphNodes ==
    {"query_analyzer", "search_orchestrator", "white_hat", "red_hat", "yellow_hat",
     "black_hat", "aggregator", "green_hat", "blue_hat"}

\* the generator of stream has yielded its last event
StreamExhausted == stream.active /\ pc = "idle"

\* an event that tells the end of the stream
IsCompleteEvent(event) == event.node = "complete" \/ event.phase = "complete"

\* C35 as stated: when the stream has ended it has yielded one event for each step of
\* the run, each tagged with the phase of its step, and after them a last event
\* "complete"
C35_StreamEndsWithComplete ==
    StreamExhausted =>
        LET n == Len(stream.events)
        IN  /\ n = Cardinality(GraphNodes) + 1
            /\ {stream.events[i].node : i \in 1..(n - 1)} = GraphNodes
            /\ \A i \in 1..(n - 1) :
                  stream.events[i].phase = determine_phase(stream.events[i].node)
            /\ IsCompleteEvent(stream.events[n])

-----------------------------------------------------------------------------
(* Claims about the query analysis (SpecAnalysis) *)

\* the number of words of a query put together from parts
WordsOf(parts) ==
    1 + parts.padding
      + (IF parts.technical # <<>> THEN 1 ELSE 0)
      + (IF parts.comparative # <<>> THEN 1 ELSE 0)
      + (IF parts.multiple = TextAnd THEN 2 ELSE 0)

\* the score the parts of a query stand for
ScoreOf(parts) ==
    (IF WordsOf(parts) > 15 THEN 1 ELSE 0)
      + (IF parts.technical # <<>> THEN 2 ELSE 0)
      + (IF parts.multiple # <<>> THEN 1 ELSE 0)
      + (IF parts.comparative # <<>> THEN 1 ELSE 0)

\* the analysis of the query of the run has been stored
Analyzed == pc = "search_orchestrator" /\ state.query_analysis.set

C37_AllocationIsTheParallelHats ==
    Analyzed =>
        LET recs == state.query_analysis.search_recommendations
            allocation == state.query_analysis.budget_allocation
        IN  /\ Len(allocation) = 4
            /\ allocation[1] = "WHITE"
            /\ Range(allocation) = ParallelHats
            /\ \A i, j \in 2..4 :
                  i < j => priority_order(PriorityIn(recs, allocation[i]))
                              <= priority_order(PriorityIn(recs, allocation[j]))
            /\ Keys(state.query_analysis.search_queries) = ParallelHats

\* an analysis that ranks green MEDIUM like red and yellow, and black above them
C37_Witness ==
    /\ Analyzed
    /\ PriorityIn(state.query_analysis.search_recommendations, "GREEN") = "MEDIUM"
    /\ state.query_analysis.budget_allocation = <<"WHITE", "BLACK", "RED", "YELLOW">>

-----------------------------------------------------------------------------
(* Further claims about the orchestrator called directly (SpecOrch) and about the *)
(* cache (SpecCache)                                                               *)

\* two queries of one class of near-duplicates: the same query, or queries whose word
\* sets have a Jaccard index of at least the threshold
NearDuplicates(a, b) ==
    \/ a = b
    \/ similarity_meets_threshold(query_words(a), query_words(b))

EmptyResultOnRecord(L) ==
    /\ <<L.search_query, L.hat_type>> \in Range(L.before.query_registry)
    /\ OwnKey(L) \in DOMAIN L.before.cache
    /\ L.before.cache[OwnKey(L)].data = <<>>

C40_GetExpiresOnlyItsOwnEntry ==
    [][lastGet'.valid =>
          LET cache_key == ArgKey(lastGet'.arg)
          IN  IF cache_key \in DOMAIN cache
                   /\ now - cache[cache_key].timestamp < ttl_seconds
              THEN /\ lastGet'.found
                   /\ lastGet'.data = cache[cache_key].data
                   /\ cache' = cache
              ELSE /\ ~lastGet'.found
                   /\ DOMAIN cache' = (DOMAIN cache) \ {cache_key}
                   /\ \A k \in DOMAIN cache' : cache'[k] = cache[k]]_vars

\* C40 witness: a get that returned nothing for an entry set exactly one TTL ago and
\* removed it, while an entry under another key, as old, is still in the cache
C40_Witness ==
    /\ lastGet.valid
    /\ ~lastGet.found
    /\ lastSet.calls[lastGet.arg].valid
    /\ lastSet.newest = lastGet.arg
    /\ now - lastSet.calls[lastGet.arg].at = ttl_seconds
    /\ ArgKey(lastGet.arg) \notin DOMAIN cache
    /\ \E k \in DOMAIN cache : now - cache[k].timestamp = ttl_seconds

====
